---- MODULE Spec2Model ----
(***************************************************************************)
(* A model of the my-tetris rules engine: the 7-bag Randomizer with its    *)
(* seeded generator, the Board, the Tetromino, the SRS rotation resolver,  *)
(* the T-Spin detector, the ScoreManager and the GameManager's play state. *)
(* Arrays of the source are 0-indexed; sequences here are 1-indexed, so    *)
(* array[i] of the source is seq[i + 1] here.                              *)
(***************************************************************************)
EXTENDS Integers, Sequences, FiniteSets, TLC

VARIABLES
    rngA,      \* a Randomizer
    rngB,      \* a second, independently constructed Randomizer
    drawnA,    \* what rngA.next() returned since its construction or reset
    drawnB,    \* what rngB.next() returned since its construction or reset
    gridBoard, \* the Board the operations of SpecGrid are applied to
    gridPiece, \* the Tetromino they are applied to
    gridLast,  \* the last operation applied, with its arguments and result
    sessA,     \* a GameManager in a game
    sessB,     \* a second GameManager, given the same inputs at the same times
    twinSteps, \* the number of updates and inputs the two have been given
    play,      \* a GameManager in the middle of a game
    playLast,  \* the last update or input it was given, and what it was before
    playSteps, \* the number of updates and inputs it has been given
    scoreMgr,  \* a ScoreManager
    scoreStart,\* the level it was constructed or last reset with
    scoreLast, \* the last operation applied to it, with what it was before
    scoreOps,  \* the number of operations applied to it
    recClock,  \* what performance.now() last returned to the recording ReplaySystem
    recorder,  \* a ReplaySystem
    recorded,  \* the ReplayData its last stopRecording returned, if any
    recCalls,  \* the calls made to it, in order
    playback,  \* a ReplayPlaybackState
    played,    \* the actions updatePlayback has returned for it, in order
    playbackLast, \* the last operation applied to it, with what it was before
    frame      \* a GameManager and the position of its update within a tick

seqVars == << rngA, rngB, drawnA, drawnB >>
gridVars == << gridBoard, gridPiece, gridLast >>
twinVars == << sessA, sessB, twinSteps >>
playVars == << play, playLast, playSteps >>
scoreVars == << scoreMgr, scoreStart, scoreLast, scoreOps >>
recordVars == << recClock, recorder, recorded, recCalls >>
playbackVars == << playback, played, playbackLast >>
vars == << rngA, rngB, drawnA, drawnB, gridBoard, gridPiece, gridLast, sessA, sessB, twinSteps,
           play, playLast, playSteps, scoreMgr, scoreStart, scoreLast, scoreOps,
           recClock, recorder, recorded, recCalls, playback, played, playbackLast, frame >>

(***************************************************************************)
(* Bounds of the model.                                                    *)
(***************************************************************************)
\* draws made from one Randomizer before the model stops drawing
MaxDraws == 14
\* Math.random() returns k / MathRandomResolution, k in 0..MathRandomResolution-1
MathRandomResolution == 2
\* the largest count handed to peek
MaxPeek == 15

\* the number of updates and inputs given to the two GameManagers
MaxTwinSteps == 4
\* the number of updates and inputs given to the GameManager in mid-game
MaxPlaySteps == 2
\* the number of operations applied to the ScoreManager
MaxScoreOps == 4
\* the number of calls made to the recording ReplaySystem
MaxRecordCalls == 5
\* the number of key presses and ticks given to the GameManager whose update
\* is followed statement by statement
MaxFrameSteps == 2

\* the configuration of the small Board: width, height and bufferHeight
GridWidth == 4
GridHeight == 4
GridBuffer == 1

\* seeds handed to the Randomizer (numbers below 2^31)
Seeds == {0, 42, 123}

(***************************************************************************)
(* Unsigned 32-bit numbers and IEEE doubles.  TLC's integers are 32-bit    *)
(* signed, so a number of the source is kept as its base-256 digits, least *)
(* significant first.  A JavaScript number is a double: a product or a sum *)
(* above 2^53 is rounded to 53 significant bits, ties to even.             *)
(*                                                                         *)
(* An intermediate value that is used more than once is bound as the one   *)
(* element of a set, CHOOSE r \in {F(v) : v \in {e}} : TRUE, which is F(e) *)
(* with e evaluated once.                                                  *)
(***************************************************************************)
Base == 256

RECURSIVE Pow2(_)
Pow2(n) == IF n = 0 THEN 1 ELSE 2 * Pow2(n - 1)

\* the four bytes of a number 0 <= n < 2^31
Bytes(n) == << n % Base, (n \div Base) % Base, (n \div (Base * Base)) % Base,
               (n \div (Base * Base * Base)) % Base >>

\* base-256 digits of the number whose i-th column holds cols[i], plus the carry c
RECURSIVE Carry(_, _, _)
Carry(cols, i, c) ==
    IF i > Len(cols) THEN << >>
    ELSE CHOOSE r \in {<< v % Base >> \o Carry(cols, i + 1, v \div Base) :
                       v \in {cols[i] + c}} : TRUE

\* the sum of x[i] * y[k + 1 - i] over the i from 1 to n for which y has that digit
RECURSIVE Column(_, _, _, _)
Column(x, y, k, n) ==
    IF n = 0 THEN 0
    ELSE (IF k + 1 - n \in 1..Len(y) THEN x[n] * y[k + 1 - n] ELSE 0)
         + Column(x, y, k, n - 1)

\* the product of two sequences of 4 digits, as 9 digits
MulDigits(x, y) ==
    CHOOSE r \in {Carry(cols, 1, 0) :
                  cols \in {<< Column(x, y, 1, 4), Column(x, y, 2, 4), Column(x, y, 3, 4),
                               Column(x, y, 4, 4), Column(x, y, 5, 4), Column(x, y, 6, 4),
                               Column(x, y, 7, 4), 0, 0 >>}} : TRUE

RECURSIVE BitLenSmall(_)
BitLenSmall(n) == IF n = 0 THEN 0 ELSE 1 + BitLenSmall(n \div 2)

\* number of significant bits of a digit sequence
BitLen(d) ==
    LET nz == {i \in 1..Len(d) : d[i] # 0}
    IN  IF nz = {} THEN 0
        ELSE CHOOSE r \in {8 * (t - 1) + BitLenSmall(d[t]) :
                           t \in {i \in nz : \A k \in nz : k <= i}} : TRUE

\* d with its bits below bit e rounded away, half to even (e <= 16)
RoundAt(d, e) ==
    CHOOSE r \in
        {Carry(<< low - (low % Pow2(e))
                  + (IF \/ low % Pow2(e) > Pow2(e - 1)
                        \/ /\ low % Pow2(e) = Pow2(e - 1)
                           /\ (low \div Pow2(e)) % 2 = 1
                     THEN Pow2(e) ELSE 0),
                  0, 0, d[4], d[5], d[6], d[7], d[8], d[9] >>, 1, 0) :
         low \in {d[1] + Base * d[2] + Base * Base * d[3]}} : TRUE

\* a 9-digit integer rounded to the nearest double
RoundToDouble(d) ==
    CHOOSE r \in {IF L <= 53 THEN d ELSE RoundAt(d, L - 53) : L \in {BitLen(d)}} : TRUE

\* the double sum d + n of an integer double of 9 digits and a small integer
AddDouble(d, n) ==
    CHOOSE r \in {RoundToDouble(sum) :
                  sum \in {Carry(<< d[1] + n, d[2], d[3], d[4], d[5], d[6], d[7], d[8],
                                    d[9] >>, 1, 0)}} : TRUE

(***************************************************************************)
(* SeededRandom: the linear congruential generator.                        *)
(***************************************************************************)
LcgMultiplier == Bytes(1103515245)
LcgIncrement == 12345

\* this.seed = (this.seed * 1103515245 + 12345) >>> 0
LcgStep(seed) ==
    CHOOSE r \in
        {SubSeq(sum, 1, 4) :
         sum \in {AddDouble(product, LcgIncrement) :
                  product \in {RoundToDouble(p) :
                               p \in {MulDigits(s, LcgMultiplier) : s \in {seed}}}}} : TRUE

\* Math.floor(random() * n) for the value SeededRandom.next() returns in state
\* seed.  (seed / 0x100000000) >>> 0 is 0 for every 32-bit seed, so the value
\* returned is seed / 0xffffffff, and the floor is that of seed * n / (2^32 - 1).
LcgIndex(seed, n) ==
    CHOOSE r \in
        {IF p[4] = 255 /\ p[3] = 255 /\ p[2] = 255 /\ p[1] >= 255 - p[5]
         THEN p[5] + 1 ELSE p[5] :
         p \in {Carry(<< seed[1] * n, seed[2] * n, seed[3] * n, seed[4] * n, 0 >>,
                      1, 0)}} : TRUE

\* Math.floor(Math.random() * n) when Math.random() returns k / MathRandomResolution
MathIndex(k, n) == (k * n) \div MathRandomResolution

(***************************************************************************)
(* shuffle and the Randomizer.                                             *)
(***************************************************************************)
AllTetrominoTypes == << "I", "O", "T", "S", "Z", "J", "L" >>
TetrominoTypes == {AllTetrominoTypes[i] : i \in 1..7}

\* the random source of a Randomizer: a seeded generator or Math.random
SeededSource(seed) == [seeded |-> TRUE, seed |-> Bytes(seed)]
MathSource == [seeded |-> FALSE, seed |-> Bytes(0)]

\* the values k of Math.random() during one shuffle, one per call
MathRandomRuns == {[c \in 1..6 |-> k] : k \in 0..(MathRandomResolution - 1)}

\* one step of the loop of shuffle: array[i] and array[j] change places
SwapNoWriteBack(array, i, j) == [array EXCEPT ![i + 1] = array[j + 1]]
Swap(array, i, j) == [array EXCEPT ![i + 1] = array[j + 1], ![j + 1] = array[i + 1]]

\* shuffle(array, random) from index i down to 1; call is the number of random()
\* calls made so far, run the Math.random values of this shuffle.
\* Returns the array and the source as the loop leaves it.
RECURSIVE ShuffleLoop(_, _, _, _, _)
ShuffleLoop(array, i, source, run, call) ==
    IF i < 1 THEN [array |-> array, source |-> source]
    ELSE IF source.seeded
         THEN CHOOSE r \in
                  {CHOOSE q \in
                       {ShuffleLoop(shuffled, i - 1, [seeded |-> TRUE, seed |-> s],
                                    run, call + 1) :
                        shuffled \in {Swap(array, i, LcgIndex(s, i + 1))}} : TRUE :
                   s \in {LcgStep(source.seed)}} : TRUE
         ELSE CHOOSE r \in
                  {ShuffleLoop(shuffled, i - 1, source, run, call + 1) :
                   shuffled \in {Swap(array, i, MathIndex(run[call + 1], i + 1))}} : TRUE

shuffle(array, source, run) ==
    CHOOSE r \in {ShuffleLoop(array, Len(array) - 1, src, run, 0) : src \in {source}} : TRUE

\* fillBag and fillPreviewBag
fillBag(rng, run) ==
    CHOOSE r \in
        {[bag |-> s.array, previewBag |-> old.previewBag, random |-> s.source,
          initialSeed |-> old.initialSeed] :
         s \in {shuffle(AllTetrominoTypes, old.random, run) : old \in {rng}},
         old \in {rng}} : TRUE

fillPreviewBag(rng, run) ==
    CHOOSE r \in
        {[bag |-> old.bag, previewBag |-> s.array, random |-> s.source,
          initialSeed |-> old.initialSeed] :
         s \in {shuffle(AllTetrominoTypes, old.random, run) : old \in {rng}},
         old \in {rng}} : TRUE

\* What the constructor and reset do.  seed is the optional argument: << >> when
\* it is undefined, << n >> when it is the number n.  env is what Math.random
\* yields when it is used: the generated seed, Math.floor(Math.random() *
\* 0xffffffff), and the values drawn by the two shuffles.
Randomizer(seed, env) ==
    LET fresh == IF seed # << >>
                 THEN [bag |-> << >>, previewBag |-> << >>,
                       random |-> SeededSource(seed[1]), initialSeed |-> seed[1]]
                 ELSE [bag |-> << >>, previewBag |-> << >>,
                       random |-> MathSource, initialSeed |-> env.seed]
    IN  fillPreviewBag(fillBag(fresh, env.run1), env.run2)

getSeed(rng) == rng.initialSeed

\* what Math.random can yield during a construction or a reset; a seeded
\* construction never calls it
Environments == [seed : Seeds, run1 : MathRandomRuns, run2 : MathRandomRuns]
NoRun == [c \in 1..6 |-> 0]
NoEnvironment == [seed |-> 42, run1 |-> NoRun, run2 |-> NoRun]
EnvironmentsFor(seed) == IF seed = << >> THEN Environments ELSE {NoEnvironment}
\* what Math.random can yield during a next() of rng: it is called only when an
\* unseeded Randomizer refills its preview bag
RunsFor(rng) ==
    IF Len(rng.bag) = 0 /\ ~rng.random.seeded THEN MathRandomRuns ELSE {NoRun}

\* next(): the piece returned and the Randomizer afterwards
nextKeepingHead(rng, run) ==
    CHOOSE n \in
        {[piece |-> Head(r.bag), rng |-> [r EXCEPT !.bag = SubSeq(r.bag, 1, Len(r.bag) - 1)]] :
         r \in {IF Len(rng.bag) = 0
                THEN fillPreviewBag([rng EXCEPT !.bag = rng.previewBag], run)
                ELSE rng}} : TRUE

next(rng, run) ==
    CHOOSE n \in
        {[piece |-> Head(r.bag), rng |-> [r EXCEPT !.bag = Tail(r.bag)]] :
         r \in {IF Len(rng.bag) = 0
                THEN fillPreviewBag([rng EXCEPT !.bag = rng.previewBag], run)
                ELSE rng}} : TRUE

Min(a, b) == IF a <= b THEN a ELSE b
Max(a, b) == IF a >= b THEN a ELSE b

\* peek(count)
peekPreviewBagOnly(rng, count) ==
    SubSeq(rng.previewBag, 1, Min(Min(count, 14), Len(rng.previewBag)))

peek(rng, count) ==
    LET maxPeek   == Min(count, 14)
        fromBag   == SubSeq(rng.bag, 1, Min(maxPeek, Len(rng.bag)))
        remaining == maxPeek - Len(fromBag)
    IN  fromBag \o SubSeq(rng.previewBag, 1, Min(remaining, Len(rng.previewBag)))

SeedArgs == {<< s >> : s \in Seeds} \cup {<< >>}

\* new Randomizer(seed), for every argument and everything Math.random can yield
Constructed == [seed \in SeedArgs |-> [env \in EnvironmentsFor(seed) |-> Randomizer(seed, env)]]

\* reset(seed): a new generator and two new bags, whatever the Randomizer held
resetKeepingGenerator(rng, seed, env) ==
    fillPreviewBag(fillBag([rng EXCEPT !.initialSeed = IF seed # << >> THEN seed[1]
                                                       ELSE env.seed], env.run1),
                   env.run2)
reset(rng, seed, env) == Constructed[seed][env]

(***************************************************************************)
(* Tetromino: types, colors, shape matrices and the Tetromino class.       *)
(***************************************************************************)
TETROMINO_COLORS ==
    [I |-> "#00f0f0", O |-> "#f0f000", T |-> "#a000f0", S |-> "#00f000",
     Z |-> "#f00000", J |-> "#0000f0", L |-> "#f0a000"]

\* the 4x4 matrices of the four rotation states, rows from the top
I_SHAPES ==
    << << << 0, 0, 0, 0 >>, << 1, 1, 1, 1 >>, << 0, 0, 0, 0 >>, << 0, 0, 0, 0 >> >>,
       << << 0, 0, 1, 0 >>, << 0, 0, 1, 0 >>, << 0, 0, 1, 0 >>, << 0, 0, 1, 0 >> >>,
       << << 0, 0, 0, 0 >>, << 0, 0, 0, 0 >>, << 1, 1, 1, 1 >>, << 0, 0, 0, 0 >> >>,
       << << 0, 1, 0, 0 >>, << 0, 1, 0, 0 >>, << 0, 1, 0, 0 >>, << 0, 1, 0, 0 >> >> >>
O_SHAPES ==
    << << << 0, 1, 1, 0 >>, << 0, 1, 1, 0 >>, << 0, 0, 0, 0 >>, << 0, 0, 0, 0 >> >>,
       << << 0, 1, 1, 0 >>, << 0, 1, 1, 0 >>, << 0, 0, 0, 0 >>, << 0, 0, 0, 0 >> >>,
       << << 0, 1, 1, 0 >>, << 0, 1, 1, 0 >>, << 0, 0, 0, 0 >>, << 0, 0, 0, 0 >> >>,
       << << 0, 1, 1, 0 >>, << 0, 1, 1, 0 >>, << 0, 0, 0, 0 >>, << 0, 0, 0, 0 >> >> >>
T_SHAPES ==
    << << << 0, 1, 0, 0 >>, << 1, 1, 1, 0 >>, << 0, 0, 0, 0 >>, << 0, 0, 0, 0 >> >>,
       << << 0, 1, 0, 0 >>, << 0, 1, 1, 0 >>, << 0, 1, 0, 0 >>, << 0, 0, 0, 0 >> >>,
       << << 0, 0, 0, 0 >>, << 1, 1, 1, 0 >>, << 0, 1, 0, 0 >>, << 0, 0, 0, 0 >> >>,
       << << 0, 1, 0, 0 >>, << 1, 1, 0, 0 >>, << 0, 1, 0, 0 >>, << 0, 0, 0, 0 >> >> >>
S_SHAPES ==
    << << << 0, 1, 1, 0 >>, << 1, 1, 0, 0 >>, << 0, 0, 0, 0 >>, << 0, 0, 0, 0 >> >>,
       << << 0, 1, 0, 0 >>, << 0, 1, 1, 0 >>, << 0, 0, 1, 0 >>, << 0, 0, 0, 0 >> >>,
       << << 0, 0, 0, 0 >>, << 0, 1, 1, 0 >>, << 1, 1, 0, 0 >>, << 0, 0, 0, 0 >> >>,
       << << 1, 0, 0, 0 >>, << 1, 1, 0, 0 >>, << 0, 1, 0, 0 >>, << 0, 0, 0, 0 >> >> >>
Z_SHAPES ==
    << << << 1, 1, 0, 0 >>, << 0, 1, 1, 0 >>, << 0, 0, 0, 0 >>, << 0, 0, 0, 0 >> >>,
       << << 0, 0, 1, 0 >>, << 0, 1, 1, 0 >>, << 0, 1, 0, 0 >>, << 0, 0, 0, 0 >> >>,
       << << 0, 0, 0, 0 >>, << 1, 1, 0, 0 >>, << 0, 1, 1, 0 >>, << 0, 0, 0, 0 >> >>,
       << << 0, 1, 0, 0 >>, << 1, 1, 0, 0 >>, << 1, 0, 0, 0 >>, << 0, 0, 0, 0 >> >> >>
J_SHAPES ==
    << << << 1, 0, 0, 0 >>, << 1, 1, 1, 0 >>, << 0, 0, 0, 0 >>, << 0, 0, 0, 0 >> >>,
       << << 0, 1, 1, 0 >>, << 0, 1, 0, 0 >>, << 0, 1, 0, 0 >>, << 0, 0, 0, 0 >> >>,
       << << 0, 0, 0, 0 >>, << 1, 1, 1, 0 >>, << 0, 0, 1, 0 >>, << 0, 0, 0, 0 >> >>,
       << << 0, 1, 0, 0 >>, << 0, 1, 0, 0 >>, << 1, 1, 0, 0 >>, << 0, 0, 0, 0 >> >> >>
L_SHAPES ==
    << << << 0, 0, 1, 0 >>, << 1, 1, 1, 0 >>, << 0, 0, 0, 0 >>, << 0, 0, 0, 0 >> >>,
       << << 0, 1, 0, 0 >>, << 0, 1, 0, 0 >>, << 0, 1, 1, 0 >>, << 0, 0, 0, 0 >> >>,
       << << 0, 0, 0, 0 >>, << 1, 1, 1, 0 >>, << 1, 0, 0, 0 >>, << 0, 0, 0, 0 >> >>,
       << << 1, 1, 0, 0 >>, << 0, 1, 0, 0 >>, << 0, 1, 0, 0 >>, << 0, 0, 0, 0 >> >> >>

TETROMINO_DEFS ==
    [I |-> I_SHAPES, O |-> O_SHAPES, T |-> T_SHAPES, S |-> S_SHAPES,
     Z |-> Z_SHAPES, J |-> J_SHAPES, L |-> L_SHAPES]

RotationStates == 0..3

\* the (col, row) of the matrix entries that are 1, rows first, as getCells walks
\* a matrix
MatrixScan == [k \in 1..16 |-> [x |-> (k - 1) % 4, y |-> (k - 1) \div 4]]
MatrixCells(shape) ==
    LET IsSet(p) == shape[p.y + 1][p.x + 1] = 1
    IN  SelectSeq(MatrixScan, IsSet)
ShapeCells ==
    [type \in TetrominoTypes |->
        [rotation \in RotationStates |-> MatrixCells(TETROMINO_DEFS[type][rotation + 1])]]

\* new Tetromino(type, position): position is << >> when the argument is omitted
Tetromino(type, position) ==
    [type |-> type, color |-> TETROMINO_COLORS[type], rotation |-> 0,
     position |-> IF position = << >> THEN [x |-> 3, y |-> 0] ELSE position[1]]

getCells(tetromino) ==
    LET cells == ShapeCells[tetromino.type][tetromino.rotation]
    IN  [i \in 1..Len(cells) |-> [x |-> tetromino.position.x + cells[i].x,
                                  y |-> tetromino.position.y + cells[i].y]]

move(tetromino, dx, dy) ==
    [tetromino EXCEPT !.position = [x |-> @.x + dx, y |-> @.y + dy]]
setPosition(tetromino, position) == [tetromino EXCEPT !.position = position]
setRotation(tetromino, rotation) == [tetromino EXCEPT !.rotation = rotation]

(***************************************************************************)
(* Board: the configuration and the grid, row 0 at the top, the first      *)
(* bufferHeight rows hidden.  A cell is its filled flag and its color,     *)
(* "null" when it has none.                                                *)
(***************************************************************************)
BOARD_CONFIG_WIDTH == 10
BOARD_CONFIG_HEIGHT == 20
BOARD_CONFIG_BUFFER_HEIGHT == 4
BOARD_CONFIG ==
    [width |-> BOARD_CONFIG_WIDTH, height |-> BOARD_CONFIG_HEIGHT,
     bufferHeight |-> BOARD_CONFIG_BUFFER_HEIGHT]

EmptyCell == [filled |-> FALSE, color |-> "null"]
totalHeight(board) == board.config.height + board.config.bufferHeight

createEmptyGrid(config) ==
    [y \in 1..(config.height + config.bufferHeight) |-> [x \in 1..config.width |-> EmptyCell]]

\* new Board(config)
Board(config) == [config |-> config, grid |-> createEmptyGrid(config)]

isInBounds(board, x, y) ==
    x >= 0 /\ x < board.config.width /\ y >= 0 /\ y < totalHeight(board)

\* getCell: << >> for null, else the one cell
getCell(board, x, y) ==
    IF ~isInBounds(board, x, y) THEN << >> ELSE << board.grid[y + 1][x + 1] >>

\* setCell: the value returned and the board afterwards
setCell(board, x, y, filled, color) ==
    IF ~isInBounds(board, x, y) THEN [ok |-> FALSE, board |-> board]
    ELSE [ok |-> TRUE,
          board |-> [board EXCEPT !.grid[y + 1][x + 1] = [filled |-> filled, color |-> color]]]

isCellEmpty(board, x, y) ==
    LET cell == getCell(board, x, y)
    IN  cell # << >> /\ ~cell[1].filled

canPlaceTetromino(board, tetromino) ==
    LET cells == getCells(tetromino)
    IN  \A i \in 1..Len(cells) :
            isInBounds(board, cells[i].x, cells[i].y) /\ isCellEmpty(board, cells[i].x, cells[i].y)

\* the loop of lockTetromino over the cells from the i-th on
RECURSIVE SetCells(_, _, _, _)
SetCells(board, cells, i, color) ==
    IF i > Len(cells) THEN board
    ELSE CHOOSE r \in {SetCells(b, cells, i + 1, color) :
                       b \in {setCell(board, cells[i].x, cells[i].y, TRUE, color).board}} : TRUE

lockTetrominoUnchecked(board, tetromino) ==
    [ok |-> TRUE, board |-> SetCells(board, getCells(tetromino), 1, tetromino.color)]
lockTetromino(board, tetromino) ==
    IF ~canPlaceTetromino(board, tetromino) THEN [ok |-> FALSE, board |-> board]
    ELSE [ok |-> TRUE, board |-> SetCells(board, getCells(tetromino), 1, tetromino.color)]

isRowFilled(board, y) ==
    IF y < 0 \/ y >= totalHeight(board) THEN FALSE
    ELSE \A x \in 1..board.config.width : board.grid[y + 1][x].filled

\* clearRow: splice the row out, unshift an empty row
clearRowInPlace(board, y) ==
    IF y < 0 \/ y >= totalHeight(board) THEN board
    ELSE [board EXCEPT !.grid[y + 1] = [x \in 1..board.config.width |-> EmptyCell]]
clearRow(board, y) ==
    IF y < 0 \/ y >= totalHeight(board) THEN board
    ELSE [board EXCEPT !.grid =
              << [x \in 1..board.config.width |-> EmptyCell] >>
              \o SubSeq(board.grid, 1, y) \o SubSeq(board.grid, y + 2, Len(board.grid))]

\* the loop of clearFilledRows at row y with clearedCount rows cleared so far
RECURSIVE ClearLoop(_, _, _)
ClearLoop(board, y, clearedCount) ==
    IF y < 0 THEN [count |-> clearedCount, board |-> board]
    ELSE IF isRowFilled(board, y)
         THEN CHOOSE r \in {ClearLoop(b, y, clearedCount + 1) : b \in {clearRow(board, y)}} : TRUE
         ELSE ClearLoop(board, y - 1, clearedCount)

clearFilledRows(board) ==
    CHOOSE r \in {ClearLoop(b, totalHeight(b) - 1, 0) : b \in {board}} : TRUE

isOverflowing(board) ==
    \E y \in 0..(board.config.bufferHeight - 1) :
        \E x \in 1..board.config.width : board.grid[y + 1][x].filled

resetBoard(board) == [board EXCEPT !.grid = createEmptyGrid(board.config)]

\* getTetrominoDropPosition: the loop from testPiece with lastValidY so far
RECURSIVE DropLoop(_, _, _)
DropLoop(board, testPiece, lastValidY) ==
    IF canPlaceTetromino(board, testPiece)
    THEN DropLoop(board, move(testPiece, 0, 1), testPiece.position.y)
    ELSE lastValidY
getTetrominoDropPositionPastLast(board, tetromino) ==
    [x |-> tetromino.position.x,
     y |-> 1 + CHOOSE r \in {DropLoop(b, t, t.position.y) : b \in {board}, t \in {tetromino}} : TRUE]
getTetrominoDropPosition(board, tetromino) ==
    [x |-> tetromino.position.x,
     y |-> CHOOSE r \in {DropLoop(b, t, t.position.y) : b \in {board}, t \in {tetromino}} : TRUE]

(***************************************************************************)
(* SRS: wall kick tables and tryRotation.                                  *)
(***************************************************************************)
JLSTZ_WALL_KICKS ==
    "01" :> << [x |-> 0, y |-> 0], [x |-> -1, y |-> 0], [x |-> -1, y |-> -1], [x |-> 0, y |-> 2], [x |-> -1, y |-> 2] >> @@
    "12" :> << [x |-> 0, y |-> 0], [x |-> 1, y |-> 0], [x |-> 1, y |-> 1], [x |-> 0, y |-> -2], [x |-> 1, y |-> -2] >> @@
    "23" :> << [x |-> 0, y |-> 0], [x |-> 1, y |-> 0], [x |-> 1, y |-> -1], [x |-> 0, y |-> 2], [x |-> 1, y |-> 2] >> @@
    "30" :> << [x |-> 0, y |-> 0], [x |-> -1, y |-> 0], [x |-> -1, y |-> 1], [x |-> 0, y |-> -2], [x |-> -1, y |-> -2] >> @@
    "10" :> << [x |-> 0, y |-> 0], [x |-> 1, y |-> 0], [x |-> 1, y |-> 1], [x |-> 0, y |-> -2], [x |-> 1, y |-> -2] >> @@
    "21" :> << [x |-> 0, y |-> 0], [x |-> -1, y |-> 0], [x |-> -1, y |-> -1], [x |-> 0, y |-> 2], [x |-> -1, y |-> 2] >> @@
    "32" :> << [x |-> 0, y |-> 0], [x |-> -1, y |-> 0], [x |-> -1, y |-> 1], [x |-> 0, y |-> -2], [x |-> -1, y |-> -2] >> @@
    "03" :> << [x |-> 0, y |-> 0], [x |-> 1, y |-> 0], [x |-> 1, y |-> -1], [x |-> 0, y |-> 2], [x |-> 1, y |-> 2] >>

I_WALL_KICKS ==
    "01" :> << [x |-> 0, y |-> 0], [x |-> -2, y |-> 0], [x |-> 1, y |-> 0], [x |-> -2, y |-> 1], [x |-> 1, y |-> -2] >> @@
    "12" :> << [x |-> 0, y |-> 0], [x |-> -1, y |-> 0], [x |-> 2, y |-> 0], [x |-> -1, y |-> -2], [x |-> 2, y |-> 1] >> @@
    "23" :> << [x |-> 0, y |-> 0], [x |-> 2, y |-> 0], [x |-> -1, y |-> 0], [x |-> 2, y |-> -1], [x |-> -1, y |-> 2] >> @@
    "30" :> << [x |-> 0, y |-> 0], [x |-> 1, y |-> 0], [x |-> -2, y |-> 0], [x |-> 1, y |-> 2], [x |-> -2, y |-> -1] >> @@
    "10" :> << [x |-> 0, y |-> 0], [x |-> 2, y |-> 0], [x |-> -1, y |-> 0], [x |-> 2, y |-> -1], [x |-> -1, y |-> 2] >> @@
    "21" :> << [x |-> 0, y |-> 0], [x |-> 1, y |-> 0], [x |-> -2, y |-> 0], [x |-> 1, y |-> 2], [x |-> -2, y |-> -1] >> @@
    "32" :> << [x |-> 0, y |-> 0], [x |-> -2, y |-> 0], [x |-> 1, y |-> 0], [x |-> -2, y |-> 1], [x |-> 1, y |-> -2] >> @@
    "03" :> << [x |-> 0, y |-> 0], [x |-> -1, y |-> 0], [x |-> 2, y |-> 0], [x |-> -1, y |-> -2], [x |-> 2, y |-> 1] >>

RotationDirections == {"clockwise", "counterClockwise"}

getWallKickTable(type) == IF type = "I" THEN I_WALL_KICKS ELSE JLSTZ_WALL_KICKS

getTargetRotation(current, direction) ==
    IF direction = "clockwise" THEN (current + 1) % 4 ELSE (current + 3) % 4

\* `${fromState}${toState}`
DigitText == << "0", "1", "2", "3" >>
transitionKey(fromState, toState) == DigitText[fromState + 1] \o DigitText[toState + 1]

NullOffset == << >>

\* the loop of tryRotation from trial i on; offsets are indexed from 1 here, the
\* kickIndex reported is the source's index, from 0
RECURSIVE KickLoop(_, _, _, _, _)
KickLoop(tetromino, board, toState, offsets, i) ==
    IF i > Len(offsets)
    THEN [success |-> FALSE, kickOffset |-> NullOffset, kickIndex |-> -1,
          tetromino |-> tetromino]
    ELSE LET testPiece == [tetromino EXCEPT
                              !.rotation = toState,
                              !.position = [x |-> tetromino.position.x + offsets[i].x,
                                            y |-> tetromino.position.y + offsets[i].y]]
         IN  IF canPlaceTetromino(board, testPiece)
             THEN [success |-> TRUE,
                   kickOffset |-> IF i - 1 = 0 THEN NullOffset ELSE << offsets[i] >>,
                   kickIndex |-> i - 1,
                   tetromino |-> testPiece]
             ELSE KickLoop(tetromino, board, toState, offsets, i + 1)

\* tryRotation: the RotationResult, and the tetromino as the call leaves it
tryRotationLastTrialOnly(tetromino, board, direction) ==
    IF tetromino.type = "O"
    THEN [success |-> TRUE, kickOffset |-> NullOffset, kickIndex |-> 0, tetromino |-> tetromino]
    ELSE LET toState == getTargetRotation(tetromino.rotation, direction)
             key     == transitionKey(tetromino.rotation, toState)
         IN  KickLoop(tetromino, board, toState, getWallKickTable(tetromino.type)[key], 5)
tryRotation(tetromino, board, direction) ==
    IF tetromino.type = "O"
    THEN [success |-> TRUE, kickOffset |-> NullOffset, kickIndex |-> 0, tetromino |-> tetromino]
    ELSE LET toState == getTargetRotation(tetromino.rotation, direction)
             key     == transitionKey(tetromino.rotation, toState)
         IN  KickLoop(tetromino, board, toState, getWallKickTable(tetromino.type)[key], 1)

(***************************************************************************)
(* TSpin: the 3-corner rule.                                               *)
(***************************************************************************)
T_CENTER_OFFSET == [x |-> 1, y |-> 1]
TSPIN_MINI_KICK_INDEX == 4
MIN_CORNERS_FOR_TSPIN == 3

\* T_CORNERS, indexed by rotation state + 1
T_CORNERS ==
    << [front |-> << [x |-> -1, y |-> -1], [x |-> 1, y |-> -1] >>,
        back  |-> << [x |-> -1, y |-> 1], [x |-> 1, y |-> 1] >>],
       [front |-> << [x |-> 1, y |-> -1], [x |-> 1, y |-> 1] >>,
        back  |-> << [x |-> -1, y |-> -1], [x |-> -1, y |-> 1] >>],
       [front |-> << [x |-> -1, y |-> 1], [x |-> 1, y |-> 1] >>,
        back  |-> << [x |-> -1, y |-> -1], [x |-> 1, y |-> -1] >>],
       [front |-> << [x |-> -1, y |-> -1], [x |-> -1, y |-> 1] >>,
        back  |-> << [x |-> 1, y |-> -1], [x |-> 1, y |-> 1] >>] >>

isCornerFilledInsideOnly(board, centerX, centerY, offset) ==
    isInBounds(board, centerX + offset.x, centerY + offset.y)
    /\ ~isCellEmpty(board, centerX + offset.x, centerY + offset.y)
isCornerFilled(board, centerX, centerY, offset) ==
    IF ~isInBounds(board, centerX + offset.x, centerY + offset.y) THEN TRUE
    ELSE ~isCellEmpty(board, centerX + offset.x, centerY + offset.y)

getTCenter(tetromino) ==
    [x |-> tetromino.position.x + T_CENTER_OFFSET.x,
     y |-> tetromino.position.y + T_CENTER_OFFSET.y]

\* the number of the offsets of a list that isCornerFilled finds filled
CountFilled(board, center, offsets) ==
    Cardinality({i \in 1..Len(offsets) : isCornerFilled(board, center.x, center.y, offsets[i])})

detectTSpinIgnoringKick(tetromino, board, wasRotation, kickIndex) ==
    IF tetromino.type # "T" \/ ~wasRotation THEN [type |-> "none", wasRotation |-> wasRotation]
    ELSE LET center  == getTCenter(tetromino)
             corners == T_CORNERS[tetromino.rotation + 1]
             front   == CountFilled(board, center, corners.front)
             back    == CountFilled(board, center, corners.back)
         IN  IF front + back < MIN_CORNERS_FOR_TSPIN
             THEN [type |-> "none", wasRotation |-> wasRotation]
             ELSE IF front < 2
                  THEN [type |-> "mini", wasRotation |-> wasRotation]
                  ELSE [type |-> "full", wasRotation |-> wasRotation]
detectTSpin(tetromino, board, wasRotation, kickIndex) ==
    IF tetromino.type # "T" THEN [type |-> "none", wasRotation |-> wasRotation]
    ELSE IF ~wasRotation THEN [type |-> "none", wasRotation |-> wasRotation]
    ELSE LET center           == getTCenter(tetromino)
             corners          == T_CORNERS[tetromino.rotation + 1]
             frontFilledCount == CountFilled(board, center, corners.front)
             filledCount      == frontFilledCount + CountFilled(board, center, corners.back)
         IN  IF filledCount < MIN_CORNERS_FOR_TSPIN
             THEN [type |-> "none", wasRotation |-> wasRotation]
             ELSE IF kickIndex >= TSPIN_MINI_KICK_INDEX \/ frontFilledCount < 2
                  THEN [type |-> "mini", wasRotation |-> wasRotation]
                  ELSE [type |-> "full", wasRotation |-> wasRotation]

(***************************************************************************)
(* GameManager.tryMove, as far as the piece goes: move, and move back when *)
(* the board rejects the new position.                                     *)
(***************************************************************************)
tryMovePieceNoRevert(board, tetromino, dx, dy) ==
    [ok |-> canPlaceTetromino(board, move(tetromino, dx, dy)),
     tetromino |-> move(tetromino, dx, dy)]
tryMovePiece(board, tetromino, dx, dy) ==
    IF canPlaceTetromino(board, move(tetromino, dx, dy))
    THEN [ok |-> TRUE, tetromino |-> move(tetromino, dx, dy)]
    ELSE [ok |-> FALSE, tetromino |-> move(move(tetromino, dx, dy), -dx, -dy)]

(***************************************************************************)
(* ScoreManager.                                                           *)
(***************************************************************************)
BASE_SCORES ==
    "single" :> 100 @@ "double" :> 300 @@ "triple" :> 500 @@ "tetris" :> 800 @@
    "tspin-mini" :> 100 @@ "tspin" :> 400 @@
    "tspin-mini-single" :> 200 @@ "tspin-single" :> 800 @@
    "tspin-mini-double" :> 400 @@ "tspin-double" :> 1200 @@ "tspin-triple" :> 1600

DIFFICULT_ACTIONS ==
    {"tetris", "tspin-mini-single", "tspin-single", "tspin-mini-double", "tspin-double",
     "tspin-triple"}

FALL_SPEEDS == << 1000, 793, 618, 473, 355, 262, 190, 135, 94, 64, 43, 28, 18, 11, 7 >>

LINES_PER_LEVEL == 10
COMBO_BONUS == 50

BackToBackScoreNotApplied(baseScore) == baseScore
\* Math.floor(baseScore * BACK_TO_BACK_MULTIPLIER), the multiplier being 1.5
BackToBackScore(baseScore) == (baseScore * 3) \div 2

\* new ScoreManager(startLevel)
ScoreManager(startLevel) ==
    [score |-> 0, level |-> Max(1, startLevel), lines |-> 0, combo |-> -1,
     backToBack |-> FALSE]

stats(sm) ==
    [score |-> sm.score, level |-> sm.level, lines |-> sm.lines,
     combo |-> Max(0, sm.combo), backToBack |-> sm.backToBack]

fallSpeed(sm) == FALL_SPEEDS[Min(sm.level - 1, Len(FALL_SPEEDS) - 1) + 1]

getActionKeyIgnoringMini(linesCleared, tspinType) ==
    IF tspinType = "none"
    THEN CASE linesCleared = 1 -> "single"
           [] linesCleared = 2 -> "double"
           [] linesCleared = 3 -> "triple"
           [] linesCleared = 4 -> "tetris"
           [] OTHER -> ""
    ELSE CASE linesCleared = 0 -> "tspin"
           [] linesCleared = 1 -> "tspin-single"
           [] linesCleared = 2 -> "tspin-double"
           [] linesCleared = 3 -> "tspin-triple"
           [] OTHER -> "tspin"

getActionKeyLinesOnly(linesCleared, tspinType) ==
    IF tspinType = "none" \/ linesCleared = 0
    THEN CASE linesCleared = 1 -> "single"
           [] linesCleared = 2 -> "double"
           [] linesCleared = 3 -> "triple"
           [] linesCleared = 4 -> "tetris"
           [] OTHER -> ""
    ELSE LET prefix == IF tspinType = "mini" THEN "tspin-mini" ELSE "tspin"
         IN  CASE linesCleared = 1 -> prefix \o "-single"
               [] linesCleared = 2 -> prefix \o "-double"
               [] linesCleared = 3 -> prefix \o "-triple"
               [] OTHER -> prefix

\* getActionKey: "" when the clear maps to no action
getActionKey(linesCleared, tspinType) ==
    IF tspinType = "none"
    THEN CASE linesCleared = 1 -> "single"
           [] linesCleared = 2 -> "double"
           [] linesCleared = 3 -> "triple"
           [] linesCleared = 4 -> "tetris"
           [] OTHER -> ""
    ELSE LET prefix == IF tspinType = "mini" THEN "tspin-mini" ELSE "tspin"
         IN  CASE linesCleared = 0 -> prefix
               [] linesCleared = 1 -> prefix \o "-single"
               [] linesCleared = 2 -> prefix \o "-double"
               [] linesCleared = 3 -> prefix \o "-triple"
               [] OTHER -> prefix

checkLevelUpAlwaysSetting(sm) == [sm EXCEPT !.level = (sm.lines \div LINES_PER_LEVEL) + 1]
checkLevelUp(sm) ==
    LET targetLevel == (sm.lines \div LINES_PER_LEVEL) + 1
    IN  IF targetLevel > sm.level THEN [sm EXCEPT !.level = targetLevel] ELSE sm

processLineClearKeepingCombo(sm, result) ==
    LET linesCleared == result.linesCleared
        actionKey    == getActionKey(linesCleared, result.tspinType)
        isDifficult  == actionKey \in DIFFICULT_ACTIONS
        table        == IF actionKey \in DOMAIN BASE_SCORES THEN BASE_SCORES[actionKey] ELSE 0
        baseScore    == IF isDifficult /\ sm.backToBack THEN BackToBackScore(table) ELSE table
        combo        == IF linesCleared > 0 THEN sm.combo + 1 ELSE sm.combo
        points       == baseScore * sm.level
                        + (IF linesCleared > 0 /\ combo > 0 THEN COMBO_BONUS * combo * sm.level
                           ELSE 0)
        scored       == [score      |-> sm.score + points,
                         level      |-> sm.level,
                         lines      |-> IF linesCleared > 0 THEN sm.lines + linesCleared
                                        ELSE sm.lines,
                         combo      |-> combo,
                         backToBack |-> IF linesCleared > 0 THEN isDifficult
                                        ELSE sm.backToBack]
    IN  IF actionKey = ""
        THEN [points |-> 0, scoreManager |-> sm]
        ELSE [points |-> points,
              scoreManager |-> IF linesCleared > 0 THEN checkLevelUp(scored) ELSE scored]

processLineClearBonusAtNewLevel(sm, result) ==
    LET linesCleared == result.linesCleared
        actionKey    == getActionKey(linesCleared, result.tspinType)
        isDifficult  == actionKey \in DIFFICULT_ACTIONS
        table        == IF actionKey \in DOMAIN BASE_SCORES THEN BASE_SCORES[actionKey] ELSE 0
        baseScore    == IF isDifficult /\ sm.backToBack THEN BackToBackScore(table) ELSE table
        combo        == IF linesCleared > 0 THEN sm.combo + 1 ELSE sm.combo
        points       == baseScore * sm.level
                        + (IF linesCleared > 0 /\ combo > 0 THEN COMBO_BONUS * combo
                                * checkLevelUp([sm EXCEPT !.lines = @ + linesCleared]).level
                           ELSE 0)
        scored       == [score      |-> sm.score + points,
                         level      |-> sm.level,
                         lines      |-> IF linesCleared > 0 THEN sm.lines + linesCleared
                                        ELSE sm.lines,
                         combo      |-> combo,
                         backToBack |-> IF linesCleared > 0 THEN isDifficult
                                        ELSE sm.backToBack]
    IN  IF actionKey = ""
        THEN [points |-> 0, scoreManager |-> [sm EXCEPT !.combo = -1]]
        ELSE [points |-> points,
              scoreManager |-> IF linesCleared > 0 THEN checkLevelUp(scored) ELSE scored]

\* processLineClear: the points returned and the ScoreManager afterwards
processLineClear(sm, result) ==
    LET linesCleared == result.linesCleared
        actionKey    == getActionKey(linesCleared, result.tspinType)
        isDifficult  == actionKey \in DIFFICULT_ACTIONS
        table        == IF actionKey \in DOMAIN BASE_SCORES THEN BASE_SCORES[actionKey] ELSE 0
        baseScore    == IF isDifficult /\ sm.backToBack THEN BackToBackScore(table) ELSE table
        combo        == IF linesCleared > 0 THEN sm.combo + 1 ELSE sm.combo
        points       == baseScore * sm.level
                        + (IF linesCleared > 0 /\ combo > 0 THEN COMBO_BONUS * combo * sm.level
                           ELSE 0)
        scored       == [score      |-> sm.score + points,
                         level      |-> sm.level,
                         lines      |-> IF linesCleared > 0 THEN sm.lines + linesCleared
                                        ELSE sm.lines,
                         combo      |-> combo,
                         backToBack |-> IF linesCleared > 0 THEN isDifficult
                                        ELSE sm.backToBack]
    IN  IF actionKey = ""
        THEN [points |-> 0, scoreManager |-> [sm EXCEPT !.combo = -1]]
        ELSE [points |-> points,
              scoreManager |-> IF linesCleared > 0 THEN checkLevelUp(scored) ELSE scored]

resetCombo(sm) == [sm EXCEPT !.combo = -1]

SOFT_DROP_BONUS == 1
HARD_DROP_BONUS == 2
addSoftDropBonus(sm, cells) == [sm EXCEPT !.score = @ + cells * SOFT_DROP_BONUS]
addHardDropBonus(sm, cells) == [sm EXCEPT !.score = @ + cells * HARD_DROP_BONUS]

\* ScoreManager.reset(startLevel)
resetScoreManager(sm, startLevel) ==
    [score |-> 0, level |-> Max(1, startLevel), lines |-> 0, combo |-> -1,
     backToBack |-> FALSE]

(***************************************************************************)
(* Storage: the high scores, best first, as far as the GameManager asks.   *)
(***************************************************************************)
MAX_HIGH_SCORES == 10

isHighScore(scores, score) ==
    IF Len(scores) < MAX_HIGH_SCORES THEN score > 0
    ELSE score > scores[Len(scores)]

\* getScoreRank: << >> for null
getScoreRank(scores, score) ==
    LET better == {i \in 1..Len(scores) : score > scores[i]}
    IN  IF better # {} THEN << CHOOSE i \in better : \A j \in better : i <= j >>
        ELSE IF Len(scores) < MAX_HIGH_SCORES THEN << Len(scores) + 1 >>
        ELSE << >>

(***************************************************************************)
(* GameManager: the game state, the screen transition and the play state.  *)
(* A GameManager is a record gm; every method below takes it and gives the *)
(* GameManager it leaves.  An optional value (currentTetromino, heldPiece) *)
(* is << >> when null and << v >> otherwise.  Times are in milliseconds;   *)
(* the progress of a transition is kept as the time elapsed, progress      *)
(* times duration.  announce() writes to the page only and is left out.    *)
(***************************************************************************)
LOCK_DELAY == 500
TRANSITION_DURATION == 300
CURSOR_BLINK_INTERVAL == 500

InputActions ==
    {"moveLeft", "moveRight", "softDrop", "hardDrop", "rotateClockwise",
     "rotateCounterClockwise", "hold", "pause"}
REPEATABLE_ACTIONS == {"moveLeft", "moveRight", "softDrop"}

\* initPlayState; env is what Math.random yields to new Randomizer()
initPlayState(env) ==
    [board                 |-> Board(BOARD_CONFIG),
     randomizer            |-> Constructed[<< >>][env],
     scoreManager          |-> ScoreManager(1),
     currentTetromino      |-> << >>,
     dropTimer             |-> 0,
     lockTimer             |-> LOCK_DELAY,
     isGrounded            |-> FALSE,
     lastActionWasRotation |-> FALSE,
     lastKickIndex         |-> 0,
     hold                  |-> [heldPiece |-> << >>, holdUsed |-> FALSE]]

\* startTransition(type)
startTransition(gm, type) ==
    [gm EXCEPT !.transition = [active |-> TRUE, type |-> type, elapsed |-> 0]]

\* new GameManager(): the menu, no transition, no play state
GameManager(highScores) ==
    [state                 |-> "menu",
     transition            |-> [active |-> FALSE, type |-> "fade-in", elapsed |-> 0],
     highScores            |-> highScores,
     gameOverSelectedIndex |-> 0,
     nameInput             |-> [value |-> "", rank |-> 0, score |-> 0, level |-> 0, lines |-> 0],
     cursorBlinkTimer      |-> 0,
     showCursor            |-> TRUE,
     playState             |-> << >>]

\* the callback of startGame, run when the fade-out is complete: a GameManager
\* with a new play state, playing, the fade-in begun
startGame(highScores, env) ==
    [state                 |-> "playing",
     transition            |-> [active |-> TRUE, type |-> "fade-in", elapsed |-> 0],
     highScores            |-> highScores,
     gameOverSelectedIndex |-> 0,
     nameInput             |-> [value |-> "", rank |-> 0, score |-> 0, level |-> 0, lines |-> 0],
     cursorBlinkTimer      |-> 0,
     showCursor            |-> TRUE,
     playState             |-> initPlayState(env)]

pauseGame(gm) == IF gm.state # "playing" THEN gm ELSE [gm EXCEPT !.state = "paused"]
resumeGame(gm) == IF gm.state # "paused" THEN gm ELSE [gm EXCEPT !.state = "playing"]

handleGameOver(gm) ==
    LET st == stats(gm.playState.scoreManager)
    IN  IF isHighScore(gm.highScores, st.score)
        THEN [gm EXCEPT !.nameInput =
                            [value |-> "",
                             rank  |-> IF getScoreRank(gm.highScores, st.score) = << >> THEN 1
                                       ELSE getScoreRank(gm.highScores, st.score)[1],
                             score |-> st.score, level |-> st.level, lines |-> st.lines],
                        !.cursorBlinkTimer = 0,
                        !.showCursor = TRUE,
                        !.state = "name-input"]
        ELSE [gm EXCEPT !.state = "gameover", !.gameOverSelectedIndex = 0]

\* updateTransition; the onComplete of a fade-in is undefined
updateTransition(gm, deltaTime) ==
    IF ~gm.transition.active THEN gm
    ELSE LET elapsed == Min(TRANSITION_DURATION, gm.transition.elapsed + deltaTime)
         IN  [gm EXCEPT !.transition.elapsed = elapsed,
                        !.transition.active = ~(elapsed >= TRANSITION_DURATION)]

\* tryMove: the value returned and the GameManager afterwards
tryMoveResettingOnFailure(gm, dx, dy) ==
    IF gm.playState.currentTetromino = << >> THEN [ok |-> FALSE, gm |-> gm]
    ELSE CHOOSE r \in
        {IF m.ok
         THEN [ok |-> TRUE,
               gm |-> [gm EXCEPT !.playState.currentTetromino = << m.tetromino >>,
                                 !.playState.lockTimer =
                                     IF gm.playState.isGrounded /\ dy = 0 THEN LOCK_DELAY
                                     ELSE @,
                                 !.playState.lastActionWasRotation = FALSE]]
         ELSE [ok |-> FALSE,
               gm |-> [gm EXCEPT !.playState.currentTetromino = << m.tetromino >>,
                                 !.playState.lockTimer =
                                     IF gm.playState.isGrounded /\ dy = 0 THEN LOCK_DELAY
                                     ELSE @]] :
         m \in {tryMovePiece(gm.playState.board, gm.playState.currentTetromino[1], dx, dy)}} :
        TRUE

tryMoveKeepingLockTimer(gm, dx, dy) ==
    IF gm.playState.currentTetromino = << >> THEN [ok |-> FALSE, gm |-> gm]
    ELSE CHOOSE r \in
        {IF m.ok
         THEN [ok |-> TRUE,
               gm |-> [gm EXCEPT !.playState.currentTetromino = << m.tetromino >>,
                                 !.playState.lastActionWasRotation = FALSE]]
         ELSE [ok |-> FALSE,
               gm |-> [gm EXCEPT !.playState.currentTetromino = << m.tetromino >>]] :
         m \in {tryMovePiece(gm.playState.board, gm.playState.currentTetromino[1], dx, dy)}} :
        TRUE

tryMoveKeepingRotationFlag(gm, dx, dy) ==
    IF gm.playState.currentTetromino = << >> THEN [ok |-> FALSE, gm |-> gm]
    ELSE CHOOSE r \in
        {IF m.ok
         THEN [ok |-> TRUE,
               gm |-> [gm EXCEPT !.playState.currentTetromino = << m.tetromino >>,
                                 !.playState.lockTimer =
                                     IF gm.playState.isGrounded /\ dy = 0 THEN LOCK_DELAY
                                     ELSE @]]
         ELSE [ok |-> FALSE,
               gm |-> [gm EXCEPT !.playState.currentTetromino = << m.tetromino >>]] :
         m \in {tryMovePiece(gm.playState.board, gm.playState.currentTetromino[1], dx, dy)}} :
        TRUE

tryMove(gm, dx, dy) ==
    IF gm.playState.currentTetromino = << >> THEN [ok |-> FALSE, gm |-> gm]
    ELSE CHOOSE r \in
        {IF m.ok
         THEN [ok |-> TRUE,
               gm |-> [gm EXCEPT !.playState.currentTetromino = << m.tetromino >>,
                                 !.playState.lockTimer =
                                     IF gm.playState.isGrounded /\ dy = 0 THEN LOCK_DELAY
                                     ELSE @,
                                 !.playState.lastActionWasRotation = FALSE]]
         ELSE [ok |-> FALSE,
               gm |-> [gm EXCEPT !.playState.currentTetromino = << m.tetromino >>]] :
         m \in {tryMovePiece(gm.playState.board, gm.playState.currentTetromino[1], dx, dy)}} :
        TRUE

resetSpawnStateKeepingTimers(gm, type) ==
    [gm EXCEPT !.playState.currentTetromino = << Tetromino(type, << [x |-> 3, y |-> 0] >>) >>,
               !.playState.isGrounded = FALSE,
               !.playState.lastKickIndex = 0]

resetSpawnState(gm, type) ==
    [gm EXCEPT !.playState.currentTetromino = << Tetromino(type, << [x |-> 3, y |-> 0] >>) >>,
               !.playState.dropTimer = 0,
               !.playState.lockTimer = LOCK_DELAY,
               !.playState.isGrounded = FALSE,
               !.playState.lastActionWasRotation = FALSE,
               !.playState.lastKickIndex = 0]

\* spawnTetromino; run is what Math.random yields if next() refills a bag
spawnTetromino(gm, run) ==
    CHOOSE r \in
        {[resetSpawnState(gm, n.piece) EXCEPT !.playState.randomizer = n.rng,
                                              !.playState.hold.holdUsed = FALSE] :
         n \in {next(gm.playState.randomizer, run)}} : TRUE

spawnTetrominoOfType(gm, type) == resetSpawnState(gm, type)

checkGrounded(gm) ==
    IF gm.playState.currentTetromino = << >> THEN FALSE
    ELSE ~canPlaceTetromino(gm.playState.board, move(gm.playState.currentTetromino[1], 0, 1))

performLineClearDetectingLast(gm) ==
    IF gm.playState.currentTetromino = << >>
    THEN [linesCleared |-> 0, tspinType |-> "none", gm |-> gm]
    ELSE CHOOSE r \in
        {[linesCleared |-> cleared.count,
          tspinType    |-> detectTSpin(gm.playState.currentTetromino[1], cleared.board,
                                       gm.playState.lastActionWasRotation,
                                       gm.playState.lastKickIndex).type,
          gm           |-> [gm EXCEPT !.playState.board = cleared.board]] :
         cleared \in {clearFilledRows(locked.board) :
                      locked \in {lockTetromino(gm.playState.board,
                                                gm.playState.currentTetromino[1])}}} : TRUE

\* performLineClear: the LineClearResult, but for its description, and the
\* GameManager afterwards
performLineClear(gm) ==
    IF gm.playState.currentTetromino = << >>
    THEN [linesCleared |-> 0, tspinType |-> "none", gm |-> gm]
    ELSE CHOOSE r \in
        {[linesCleared |-> cleared.count,
          tspinType    |-> detectTSpin(gm.playState.currentTetromino[1], gm.playState.board,
                                       gm.playState.lastActionWasRotation,
                                       gm.playState.lastKickIndex).type,
          gm           |-> [gm EXCEPT !.playState.board = cleared.board]] :
         cleared \in {clearFilledRows(locked.board) :
                      locked \in {lockTetromino(gm.playState.board,
                                                gm.playState.currentTetromino[1])}}} : TRUE

lockPieceSpawningAnyway(gm, run) ==
    IF gm.playState.currentTetromino = << >> THEN gm
    ELSE CHOOSE r \in
        {spawnTetromino(scored, run) :
         scored \in {[result.gm EXCEPT !.playState.scoreManager =
                          processLineClear(@, [linesCleared |-> result.linesCleared,
                                               tspinType |-> result.tspinType]).scoreManager] :
                     result \in {performLineClear(gm)}}} : TRUE

\* lockPiece
lockPiece(gm, run) ==
    IF gm.playState.currentTetromino = << >> THEN gm
    ELSE CHOOSE r \in
        {IF isOverflowing(scored.playState.board) THEN handleGameOver(scored)
         ELSE spawnTetromino(scored, run) :
         scored \in {[result.gm EXCEPT !.playState.scoreManager =
                          processLineClear(@, [linesCleared |-> result.linesCleared,
                                               tspinType |-> result.tspinType]).scoreManager] :
                     result \in {performLineClear(gm)}}} : TRUE

hardDropKeepingRotationFlag(gm, run) ==
    IF gm.playState.currentTetromino = << >> THEN gm
    ELSE CHOOSE r \in
        {lockPiece(dropped, run) :
         dropped \in {[gm EXCEPT !.playState.currentTetromino =
                                     << setPosition(@[1], getTetrominoDropPosition(
                                            gm.playState.board, @[1])) >>]}} : TRUE

hardDrop(gm, run) ==
    IF gm.playState.currentTetromino = << >> THEN gm
    ELSE CHOOSE r \in
        {lockPiece(dropped, run) :
         dropped \in {[gm EXCEPT !.playState.currentTetromino =
                                     << setPosition(@[1], getTetrominoDropPosition(
                                            gm.playState.board, @[1])) >>,
                                 !.playState.lastActionWasRotation = FALSE]}} : TRUE

handleRotation(gm, direction) ==
    IF gm.playState.currentTetromino = << >> THEN gm
    ELSE CHOOSE r \in
        {IF result.success
         THEN [gm EXCEPT !.playState.currentTetromino = << result.tetromino >>,
                         !.playState.lastActionWasRotation = TRUE,
                         !.playState.lastKickIndex = result.kickIndex,
                         !.playState.lockTimer =
                             IF gm.playState.isGrounded THEN LOCK_DELAY ELSE @]
         ELSE [gm EXCEPT !.playState.currentTetromino = << result.tetromino >>] :
         result \in {tryRotation(gm.playState.currentTetromino[1], gm.playState.board,
                                 direction)}} : TRUE

performHoldLeavingFlag(gm, run) ==
    IF gm.playState.currentTetromino = << >> THEN gm
    ELSE IF gm.playState.hold.holdUsed THEN gm
    ELSE IF gm.playState.hold.heldPiece = << >>
         THEN spawnTetromino(
                  [gm EXCEPT !.playState.hold.heldPiece =
                                 << gm.playState.currentTetromino[1].type >>], run)
         ELSE [spawnTetrominoOfType(
                  [gm EXCEPT !.playState.hold.heldPiece =
                                 << gm.playState.currentTetromino[1].type >>],
                  gm.playState.hold.heldPiece[1]) EXCEPT !.playState.hold.holdUsed = TRUE]

performHold(gm, run) ==
    IF gm.playState.currentTetromino = << >> THEN gm
    ELSE IF gm.playState.hold.holdUsed THEN gm
    ELSE CHOOSE r \in
        {[spawned EXCEPT !.playState.hold.holdUsed = TRUE] :
         spawned \in
            {IF gm.playState.hold.heldPiece = << >>
             THEN spawnTetromino(
                      [gm EXCEPT !.playState.hold.heldPiece =
                                     << gm.playState.currentTetromino[1].type >>], run)
             ELSE spawnTetrominoOfType(
                      [gm EXCEPT !.playState.hold.heldPiece =
                                     << gm.playState.currentTetromino[1].type >>],
                      gm.playState.hold.heldPiece[1])}} : TRUE

handlePlayInput(gm, action, run) ==
    IF gm.playState.currentTetromino = << >> THEN gm
    ELSE CASE action = "moveLeft"  -> tryMove(gm, -1, 0).gm
           [] action = "moveRight" -> tryMove(gm, 1, 0).gm
           [] action = "softDrop"  ->
                  CHOOSE r \in {IF m.ok THEN [m.gm EXCEPT !.playState.dropTimer = 0]
                                ELSE m.gm : m \in {tryMove(gm, 0, 1)}} : TRUE
           [] action = "hardDrop"  -> hardDrop(gm, run)
           [] action = "rotateClockwise" -> handleRotation(gm, "clockwise")
           [] action = "rotateCounterClockwise" -> handleRotation(gm, "counterClockwise")
           [] action = "hold"  -> performHold(gm, run)
           [] action = "pause" ->
                  IF gm.state = "playing" THEN pauseGame(gm)
                  ELSE IF gm.state = "paused" THEN resumeGame(gm)
                  ELSE gm

handleInput(gm, action, run) ==
    IF gm.transition.active THEN gm
    ELSE IF gm.state = "playing" THEN handlePlayInput(gm, action, run)
    ELSE gm

\* inputHandler.update(): the callback is called with each of the repeats, the
\* actions of held keys whose repeat is due, in order
RECURSIVE TriggerRepeats(_, _, _)
TriggerRepeats(gm, repeats, i) ==
    IF i > Len(repeats) THEN gm
    ELSE CHOOSE r \in {TriggerRepeats(g, repeats, i + 1) :
                       g \in {handleInput(gm, repeats[i], NoRun)}} : TRUE

\* update, from the test of the game state on
updatePlayLockingLate(gm, deltaTime, run) ==
    IF gm.state = "name-input"
    THEN IF gm.cursorBlinkTimer + deltaTime >= CURSOR_BLINK_INTERVAL
         THEN [gm EXCEPT !.cursorBlinkTimer = 0, !.showCursor = ~@]
         ELSE [gm EXCEPT !.cursorBlinkTimer = @ + deltaTime]
    ELSE IF gm.state # "playing" THEN gm
    ELSE IF gm.playState.currentTetromino = << >> THEN spawnTetromino(gm, run)
    ELSE CHOOSE r \in
        {IF grounded /\ gm.playState.lockTimer - deltaTime < 0
         THEN lockPiece([gm EXCEPT !.playState.isGrounded = TRUE,
                                   !.playState.lockTimer = @ - deltaTime], run)
         ELSE CHOOSE q \in
             {IF timed.playState.dropTimer >= fallSpeed(timed.playState.scoreManager)
              THEN tryMove([timed EXCEPT !.playState.dropTimer = 0], 0, 1).gm
              ELSE timed :
              timed \in {[gm EXCEPT !.playState.isGrounded = grounded,
                                    !.playState.lockTimer =
                                        IF grounded THEN @ - deltaTime ELSE LOCK_DELAY,
                                    !.playState.dropTimer = @ + deltaTime]}} : TRUE :
         grounded \in {checkGrounded(gm)}} : TRUE

updatePlay(gm, deltaTime, run) ==
    IF gm.state = "name-input"
    THEN IF gm.cursorBlinkTimer + deltaTime >= CURSOR_BLINK_INTERVAL
         THEN [gm EXCEPT !.cursorBlinkTimer = 0, !.showCursor = ~@]
         ELSE [gm EXCEPT !.cursorBlinkTimer = @ + deltaTime]
    ELSE IF gm.state # "playing" THEN gm
    ELSE IF gm.playState.currentTetromino = << >> THEN spawnTetromino(gm, run)
    ELSE CHOOSE r \in
        {IF grounded /\ gm.playState.lockTimer - deltaTime <= 0
         THEN lockPiece([gm EXCEPT !.playState.isGrounded = TRUE,
                                   !.playState.lockTimer = @ - deltaTime], run)
         ELSE CHOOSE q \in
             {IF timed.playState.dropTimer >= fallSpeed(timed.playState.scoreManager)
              THEN tryMove([timed EXCEPT !.playState.dropTimer = 0], 0, 1).gm
              ELSE timed :
              timed \in {[gm EXCEPT !.playState.isGrounded = grounded,
                                    !.playState.lockTimer =
                                        IF grounded THEN @ - deltaTime ELSE LOCK_DELAY,
                                    !.playState.dropTimer = @ + deltaTime]}} : TRUE :
         grounded \in {checkGrounded(gm)}} : TRUE

\* update(deltaTime)
update(gm, deltaTime, repeats, run) ==
    CHOOSE r \in
        {updatePlay(g, deltaTime, run) :
         g \in {TriggerRepeats(t, repeats, 1) : t \in {updateTransition(gm, deltaTime)}}} : TRUE

(***************************************************************************)
(* ReplaySystem. What performance.now() returns is a whole number of       *)
(* milliseconds. The playback speeds 0.5, 1 and 2 are kept as twice their  *)
(* value and the currentTime of a playback state in half milliseconds, so  *)
(* that deltaTime * speed is a whole number.                               *)
(***************************************************************************)
ReplaySpeeds == {1, 2, 4}
DEFAULT_REPLAY_SPEED == 2

\* new ReplaySystem()
ReplaySystem == [recording |-> FALSE, events |-> << >>, seed |-> 0, startTime |-> 0]

\* startRecording(seed); now is what performance.now() returns
startRecording(rs, seed, now) ==
    [rs EXCEPT !.recording = TRUE, !.events = << >>, !.seed = seed, !.startTime = now]

recordActionAlways(rs, action, now) ==
    [rs EXCEPT !.events = Append(@, [timestamp |-> now - rs.startTime, action |-> action])]

\* recordAction(action)
recordAction(rs, action, now) ==
    IF ~rs.recording THEN rs
    ELSE [rs EXCEPT !.events = Append(@, [timestamp |-> now - rs.startTime,
                                          action    |-> action])]

\* stopRecording: the ReplayData returned, but for its date, and the
\* ReplaySystem afterwards; uuid is what crypto.randomUUID() returns
stopRecording(rs, finalScore, finalLevel, finalLines, now, uuid) ==
    [replaySystem |-> [rs EXCEPT !.recording = FALSE],
     replayData   |-> [id         |-> uuid,
                       seed       |-> rs.seed,
                       events     |-> rs.events,
                       finalScore |-> finalScore,
                       finalLevel |-> finalLevel,
                       finalLines |-> finalLines,
                       duration   |-> now - rs.startTime]]

\* createPlaybackState(replay)
createPlaybackState(replay) ==
    [replay         |-> replay,
     currentTime    |-> 0,
     nextEventIndex |-> 0,
     paused         |-> FALSE,
     speed          |-> DEFAULT_REPLAY_SPEED,
     finished       |-> FALSE]

RECURSIVE TriggerEventsNewestFirst(_, _)
TriggerEventsNewestFirst(state, triggeredActions) ==
    IF state.nextEventIndex < Len(state.replay.events)
    THEN LET event == state.replay.events[state.nextEventIndex + 1]
         IN  IF 2 * event.timestamp > state.currentTime
             THEN [actions |-> triggeredActions, state |-> state]
             ELSE TriggerEventsNewestFirst([state EXCEPT !.nextEventIndex = @ + 1],
                                           << event.action >> \o triggeredActions)
    ELSE [actions |-> triggeredActions, state |-> state]

\* the loop of updatePlayback: the events up to currentTime, in order
RECURSIVE TriggerEvents(_, _)
TriggerEvents(state, triggeredActions) ==
    IF state.nextEventIndex < Len(state.replay.events)
    THEN LET event == state.replay.events[state.nextEventIndex + 1]
         IN  IF 2 * event.timestamp > state.currentTime
             THEN [actions |-> triggeredActions, state |-> state]
             ELSE TriggerEvents([state EXCEPT !.nextEventIndex = @ + 1],
                                Append(triggeredActions, event.action))
    ELSE [actions |-> triggeredActions, state |-> state]

\* the end of updatePlayback: finished when no event is left and currentTime
\* has reached the duration
CheckFinished(state) ==
    IF /\ state.nextEventIndex >= Len(state.replay.events)
       /\ state.currentTime >= 2 * state.replay.duration
    THEN [state EXCEPT !.finished = TRUE]
    ELSE state

updatePlaybackNewestFirst(state, deltaTime) ==
    IF state.paused \/ state.finished \/ deltaTime < 0
    THEN [actions |-> << >>, state |-> state]
    ELSE CHOOSE r \in
        {[actions |-> triggered.actions, state |-> CheckFinished(triggered.state)] :
         triggered \in {TriggerEventsNewestFirst([state EXCEPT !.currentTime =
                                                                   @ + deltaTime * state.speed],
                                                 << >>)}} : TRUE

updatePlaybackIgnoringSpeed(state, deltaTime) ==
    IF state.paused \/ state.finished \/ deltaTime < 0
    THEN [actions |-> << >>, state |-> state]
    ELSE CHOOSE r \in
        {[actions |-> triggered.actions, state |-> CheckFinished(triggered.state)] :
         triggered \in {TriggerEvents([state EXCEPT !.currentTime = @ + deltaTime * 2],
                                      << >>)}} : TRUE

updatePlaybackWhilePaused(state, deltaTime) ==
    IF state.finished \/ deltaTime < 0
    THEN [actions |-> << >>, state |-> state]
    ELSE CHOOSE r \in
        {[actions |-> triggered.actions, state |-> CheckFinished(triggered.state)] :
         triggered \in {TriggerEvents([state EXCEPT !.currentTime =
                                                        @ + deltaTime * state.speed],
                                      << >>)}} : TRUE

updatePlaybackFinishingWithLog(state, deltaTime) ==
    IF state.paused \/ state.finished \/ deltaTime < 0
    THEN [actions |-> << >>, state |-> state]
    ELSE CHOOSE r \in
        {[actions |-> triggered.actions,
          state   |-> IF triggered.state.nextEventIndex >= Len(state.replay.events)
                      THEN [triggered.state EXCEPT !.finished = TRUE]
                      ELSE triggered.state] :
         triggered \in {TriggerEvents([state EXCEPT !.currentTime =
                                                        @ + deltaTime * state.speed],
                                      << >>)}} : TRUE

\* updatePlayback(state, deltaTime): the actions returned and the state
\* afterwards
updatePlayback(state, deltaTime) ==
    IF state.paused \/ state.finished \/ deltaTime < 0
    THEN [actions |-> << >>, state |-> state]
    ELSE CHOOSE r \in
        {[actions |-> triggered.actions, state |-> CheckFinished(triggered.state)] :
         triggered \in {TriggerEvents([state EXCEPT !.currentTime =
                                                        @ + deltaTime * state.speed],
                                      << >>)}} : TRUE

setSpeed(state, speed) == [state EXCEPT !.speed = speed]
pause(state) == [state EXCEPT !.paused = TRUE]
resume(state) == [state EXCEPT !.paused = FALSE]
togglePause(state) == [state EXCEPT !.paused = ~@]

\* A percentage that need not be whole: the fraction num / den, den > 0.
Percent(num, den) == [num |-> num, den |-> den]
\* Math.min(a, b) of two such fractions
MinPercent(a, b) == IF a.num * b.den <= b.num * a.den THEN a ELSE b

\* getProgress(state); currentTime counts half-milliseconds, duration
\* milliseconds
getProgressUnclamped(state) ==
    IF state.replay.duration = 0 THEN Percent(100, 1)
    ELSE Percent(100 * state.currentTime, 2 * state.replay.duration)
getProgress(state) ==
    IF state.replay.duration = 0 THEN Percent(100, 1)
    ELSE MinPercent(Percent(100, 1),
                    Percent(100 * state.currentTime, 2 * state.replay.duration))

(***************************************************************************)
(* The boards and pieces the Board, SRS and TSpin operations are applied   *)
(* to: a Board of a small configuration, filled cell by cell as setCell    *)
(* fills it, and a Tetromino of any type, rotation state and position      *)
(* around it.                                                              *)
(***************************************************************************)
GridConfig == [width |-> GridWidth, height |-> GridHeight, bufferHeight |-> GridBuffer]
GridRows == GridHeight + GridBuffer

\* the color setCell gives the cells of row y
RowColor(y) == TETROMINO_COLORS[AllTetrominoTypes[(y % 7) + 1]]

\* a row of each kind: empty, full, or full but for the cell at column y % width
RowKinds == {"empty", "full", "partial"}
RowOfKind(kind, y) ==
    [x \in 1..GridWidth |->
        IF kind = "empty" \/ (kind = "partial" /\ x - 1 = y % GridWidth) THEN EmptyCell
        ELSE [filled |-> TRUE, color |-> RowColor(y)]]
RowBoards ==
    {[config |-> GridConfig, grid |-> [y \in 1..GridRows |-> RowOfKind(kinds[y], y - 1)]] :
     kinds \in [1..GridRows -> RowKinds]}

\* the empty board and the boards with one cell filled
OneCellBoards ==
    {Board(GridConfig)} \cup
    {setCell(Board(GridConfig), x, y, TRUE, RowColor(y)).board :
     x \in 0..(GridWidth - 1), y \in 0..(GridRows - 1)}

\* new Tetromino(type, position) followed by setRotation(rotation)
PieceAt(type, rotation, x, y) ==
    setRotation(Tetromino(type, << [x |-> x, y |-> y] >>), rotation)
Pieces ==
    {PieceAt(type, rotation, x, y) :
     type \in TetrominoTypes, rotation \in RotationStates,
     x \in (-2)..(GridWidth - 1), y \in (-2)..(GridRows - 1)}
TopPieces == {PieceAt(type, 0, 0, y) : type \in TetrominoTypes, y \in 0..1}

\* what gridLast holds before any operation
NoOperation == [op |-> "new"]

IdleGrid ==
    /\ gridBoard = Board(GridConfig)
    /\ gridPiece = Tetromino("I", << >>)
    /\ gridLast = NoOperation

IdleTwin ==
    /\ sessA = GameManager(<< >>)
    /\ sessB = GameManager(<< >>)
    /\ twinSteps = 0

IdlePlay ==
    /\ play = GameManager(<< >>)
    /\ playLast = NoOperation
    /\ playSteps = 0

IdleScore ==
    /\ scoreMgr = ScoreManager(1)
    /\ scoreStart = 1
    /\ scoreLast = NoOperation
    /\ scoreOps = 0

\* a ReplaySystem nothing has been called on; the ReplayData it would return
NoReplay == stopRecording(ReplaySystem, 0, 1, 0, 0, 1).replayData

IdleRecord ==
    /\ recClock = 0
    /\ recorder = ReplaySystem
    /\ recorded = << >>
    /\ recCalls = << >>

IdlePlayback ==
    /\ playback = createPlaybackState(NoReplay)
    /\ played = << >>
    /\ playbackLast = NoOperation

\* a GameManager between two ticks: gm is the GameManager and pc the position
\* of update; during a tick entry is the GameManager as update found it,
\* deltaTime its argument, repeats the actions the InputHandler has due,
\* pending those of them not yet triggered and run what Math.random yields;
\* steps lists what has been done to gm since the end of the last tick, and
\* count the key presses and ticks so far
Frame(gm) ==
    [gm |-> gm, pc |-> "idle", entry |-> gm, deltaTime |-> 0, repeats |-> << >>,
     pending |-> << >>, run |-> NoRun, steps |-> << >>, count |-> 0]

IdleFrame == frame = Frame(GameManager(<< >>))

(***************************************************************************)
(* SpecSeq: two Randomizers, constructed, drawn from and reset              *)
(* independently of each other.                                            *)
(***************************************************************************)
InitSeq ==
    /\ \E seed \in SeedArgs : \E env \in EnvironmentsFor(seed) :
           rngA = Constructed[seed][env]
    /\ \E seed \in Seeds : rngB = Constructed[<< seed >>][NoEnvironment]
    /\ drawnA = << >>
    /\ drawnB = << >>
    /\ IdleGrid
    /\ IdleTwin
    /\ IdlePlay
    /\ IdleScore
    /\ IdleRecord
    /\ IdlePlayback
    /\ IdleFrame

NextA ==
    /\ Len(drawnA) < MaxDraws
    /\ \E run \in RunsFor(rngA) :
           \E n \in {next(rngA, run)} :
               /\ rngA' = n.rng
               /\ drawnA' = Append(drawnA, n.piece)
    /\ UNCHANGED << rngB, drawnB, gridVars, twinVars, playVars, scoreVars,
                    recordVars, playbackVars, frame >>

NextB ==
    /\ Len(drawnB) < MaxDraws
    /\ \E run \in RunsFor(rngB) :
           \E n \in {next(rngB, run)} :
               /\ rngB' = n.rng
               /\ drawnB' = Append(drawnB, n.piece)
    /\ UNCHANGED << rngA, drawnA, gridVars, twinVars, playVars, scoreVars,
                    recordVars, playbackVars, frame >>

ResetA ==
    /\ Len(drawnA) > 0
    /\ \E seed \in SeedArgs : \E env \in EnvironmentsFor(seed) :
           rngA' = reset(rngA, seed, env)
    /\ drawnA' = << >>
    /\ UNCHANGED << rngB, drawnB, gridVars, twinVars, playVars, scoreVars,
                    recordVars, playbackVars, frame >>

ResetB ==
    /\ Len(drawnB) > 0
    /\ \E seed \in Seeds : rngB' = reset(rngB, << seed >>, NoEnvironment)
    /\ drawnB' = << >>
    /\ UNCHANGED << rngA, drawnA, gridVars, twinVars, playVars, scoreVars,
                    recordVars, playbackVars, frame >>

NextSeq == NextA \/ NextB \/ ResetA \/ ResetB

SpecSeq == InitSeq /\ [][NextSeq]_vars

\* the draws 7k+1 .. 7k+7 of a log, when the log holds them all
Window(drawn, k) == {drawn[7 * k + i] : i \in 1..7}
WindowIsOneOfEach(drawn, k) ==
    /\ Window(drawn, k) = TetrominoTypes
    /\ \A i, j \in 1..7 : drawn[7 * k + i] = drawn[7 * k + j] => i = j
AgreeOnCommonPrefix(a, b) == \A i \in 1..Min(Len(a), Len(b)) : a[i] = b[i]

\* C2: counted from construction or from reset, the draws 7k+1 to 7k+7 of a
\* Randomizer hold each of the 7 tetromino types exactly once, for every k.
C2_BagWindows ==
    /\ \A k \in 0..(MaxDraws \div 7) :
           7 * k + 7 <= Len(drawnA) => WindowIsOneOfEach(drawnA, k)
    /\ \A k \in 0..(MaxDraws \div 7) :
           7 * k + 7 <= Len(drawnB) => WindowIsOneOfEach(drawnB, k)
\* two full windows drawn from an unseeded and from a seeded Randomizer
C2_Witness ==
    /\ ~rngA.random.seeded
    /\ Len(drawnA) >= 14
    /\ Len(drawnB) >= 14

\* C3: two Randomizers constructed or reset with the same seed have returned the
\* same type at every draw position both have reached, and peek returns the same
\* preview on both whenever they have drawn the same number of pieces.
C3_SameSeedSameDraws ==
    (rngA.random.seeded /\ getSeed(rngA) = getSeed(rngB)) =>
        /\ AgreeOnCommonPrefix(drawnA, drawnB)
        /\ Len(drawnA) = Len(drawnB) =>
               \A count \in 1..MaxPeek : peek(rngA, count) = peek(rngB, count)
\* both seeded alike, both past the first refill of the preview bag
C3_Witness ==
    /\ rngA.random.seeded
    /\ getSeed(rngA) = getSeed(rngB)
    /\ Len(drawnA) = Len(drawnB)
    /\ Len(drawnA) >= 8

\* C4: a Randomizer constructed with the seed that an unseeded Randomizer
\* exposes through getSeed() returns the draws the unseeded one returned.
C4_ExposedSeedReplays ==
    (~rngA.random.seeded /\ getSeed(rngB) = getSeed(rngA)) =>
        AgreeOnCommonPrefix(drawnA, drawnB)

(***************************************************************************)
(* SpecGrid: one operation of Board, SRS or TSpin applied to a board and a *)
(* piece.  gridLast holds the operation, the board and the piece it was    *)
(* applied to, its arguments and what it returned.                         *)
(***************************************************************************)
IdleSeq ==
    /\ rngA = Constructed[<< 42 >>][NoEnvironment]
    /\ rngB = Constructed[<< 42 >>][NoEnvironment]
    /\ drawnA = << >>
    /\ drawnB = << >>

InitGrid ==
    /\ \/ gridBoard \in RowBoards /\ gridPiece \in TopPieces
       \/ gridBoard \in OneCellBoards /\ gridPiece \in Pieces
    /\ gridLast = NoOperation
    /\ IdleSeq
    /\ IdleTwin
    /\ IdlePlay
    /\ IdleScore
    /\ IdleRecord
    /\ IdlePlayback
    /\ IdleFrame

LockTetromino ==
    /\ gridLast.op = "new"
    /\ \E r \in {lockTetromino(gridBoard, gridPiece)} :
           /\ gridBoard' = r.board
           /\ gridLast' = [op |-> "lockTetromino", board |-> gridBoard, piece |-> gridPiece,
                       result |-> r.ok]
    /\ UNCHANGED << gridPiece, seqVars, twinVars, playVars, scoreVars,
                    recordVars, playbackVars, frame >>

ClearFilledRows ==
    /\ gridLast.op = "new"
    /\ \E r \in {clearFilledRows(gridBoard)} :
           /\ gridBoard' = r.board
           /\ gridLast' = [op |-> "clearFilledRows", board |-> gridBoard, piece |-> gridPiece,
                       result |-> r.count]
    /\ UNCHANGED << gridPiece, seqVars, twinVars, playVars, scoreVars,
                    recordVars, playbackVars, frame >>

TryRotation ==
    /\ gridLast.op = "new"
    /\ \E direction \in RotationDirections :
           \E r \in {tryRotation(gridPiece, gridBoard, direction)} :
               /\ gridPiece' = r.tetromino
               /\ gridLast' = [op |-> "tryRotation", board |-> gridBoard, piece |-> gridPiece,
                           direction |-> direction,
                           result |-> [success |-> r.success, kickOffset |-> r.kickOffset,
                                       kickIndex |-> r.kickIndex]]
    /\ UNCHANGED << gridBoard, seqVars, twinVars, playVars, scoreVars,
                    recordVars, playbackVars, frame >>

MoveDeltas == {[dx |-> -1, dy |-> 0], [dx |-> 1, dy |-> 0], [dx |-> 0, dy |-> 1]}

TryMove ==
    /\ gridLast.op = "new"
    /\ \E d \in MoveDeltas :
           \E r \in {tryMovePiece(gridBoard, gridPiece, d.dx, d.dy)} :
               /\ gridPiece' = r.tetromino
               /\ gridLast' = [op |-> "tryMove", board |-> gridBoard, piece |-> gridPiece,
                           dx |-> d.dx, dy |-> d.dy, result |-> r.ok]
    /\ UNCHANGED << gridBoard, seqVars, twinVars, playVars, scoreVars,
                    recordVars, playbackVars, frame >>

KickIndices == 0..4

DetectTSpin ==
    /\ gridLast.op = "new"
    /\ \E wasRotation \in BOOLEAN, kickIndex \in KickIndices :
           gridLast' = [op |-> "detectTSpin", board |-> gridBoard, piece |-> gridPiece,
                    wasRotation |-> wasRotation, kickIndex |-> kickIndex,
                    result |-> detectTSpin(gridPiece, gridBoard, wasRotation, kickIndex)]
    /\ UNCHANGED << gridBoard, gridPiece, seqVars, twinVars, playVars, scoreVars,
                    recordVars, playbackVars, frame >>

\* isCornerFilled, as detectTSpin calls it for each corner of a T-piece
IsCornerFilled ==
    /\ gridLast.op = "new"
    /\ gridPiece.type = "T"
    /\ \E side \in {"front", "back"}, i \in 1..2 :
           \E offset \in {T_CORNERS[gridPiece.rotation + 1][side][i]} :
               gridLast' = [op |-> "isCornerFilled", board |-> gridBoard, piece |-> gridPiece,
                        x |-> getTCenter(gridPiece).x + offset.x,
                        y |-> getTCenter(gridPiece).y + offset.y,
                        result |-> isCornerFilled(gridBoard, getTCenter(gridPiece).x,
                                                  getTCenter(gridPiece).y, offset)]
    /\ UNCHANGED << gridBoard, gridPiece, seqVars, twinVars, playVars, scoreVars,
                    recordVars, playbackVars, frame >>

\* getTetrominoDropPosition, which works on a clone of the piece
GetTetrominoDropPosition ==
    /\ gridLast.op = "new"
    /\ gridLast' = [op |-> "getTetrominoDropPosition", board |-> gridBoard,
                    piece |-> gridPiece,
                    result |-> getTetrominoDropPosition(gridBoard, gridPiece)]
    /\ UNCHANGED << gridBoard, gridPiece, seqVars, twinVars, playVars, scoreVars,
                    recordVars, playbackVars, frame >>

NextGrid ==
    \/ GetTetrominoDropPosition
    \/ LockTetromino
    \/ ClearFilledRows
    \/ TryRotation
    \/ TryMove
    \/ DetectTSpin
    \/ IsCornerFilled

SpecGrid == InitGrid /\ [][NextGrid]_vars

\* the positions of a board, and the cells a piece occupies as a set
Positions(b) == {[x |-> x, y |-> y] : x \in 0..(b.config.width - 1), y \in 0..(totalHeight(b) - 1)}
Occupied(t) == {getCells(t)[i] : i \in 1..4}
CellAt(b, p) == b.grid[p.y + 1][p.x + 1]
RowIsFull(b, y) == \A x \in 1..b.config.width : b.grid[y][x].filled
RowIsEmpty(b, y) == \A x \in 1..b.config.width : ~b.grid[y][x].filled

\* C5: lockTetromino of a piece that canPlaceTetromino rejects returns false and
\* leaves every cell as it was; of a piece it accepts, returns true and makes
\* exactly the four cells of the piece filled with the color of the piece, every
\* other cell as it was.
C5_LockFrame ==
    gridLast.op = "lockTetromino" =>
        IF canPlaceTetromino(gridLast.board, gridLast.piece)
        THEN /\ gridLast.result = TRUE
             /\ Cardinality(Occupied(gridLast.piece)) = 4
             /\ \A p \in Positions(gridBoard) :
                    CellAt(gridBoard, p) =
                        IF p \in Occupied(gridLast.piece)
                        THEN [filled |-> TRUE, color |-> TETROMINO_COLORS[gridLast.piece.type]]
                        ELSE CellAt(gridLast.board, p)
        ELSE /\ gridLast.result = FALSE
             /\ gridBoard = gridLast.board
\* a piece locked onto a board that already holds cells
C5_Witness ==
    /\ gridLast.op = "lockTetromino"
    /\ gridLast.result = TRUE
    /\ \E p \in Positions(gridBoard) : CellAt(gridLast.board, p).filled

\* C6: clearFilledRows returns the number of full rows the board held; afterwards
\* no row is full, the grid has height + bufferHeight rows of width cells, the
\* rows that were not full keep their content and order, each moved down by the
\* number of full rows that were below it, and the rows above them are empty.
C6_ClearRows ==
    gridLast.op = "clearFilledRows" =>
        LET before == gridLast.board
            rows   == 1..totalHeight(before)
            full   == {y \in rows : RowIsFull(before, y)}
        IN  /\ gridLast.result = Cardinality(full)
            /\ \A y \in rows : ~RowIsFull(gridBoard, y)
            /\ Len(gridBoard.grid) = before.config.height + before.config.bufferHeight
            /\ \A y \in rows : Len(gridBoard.grid[y]) = before.config.width
            /\ \A y \in rows \ full :
                   gridBoard.grid[y + Cardinality({z \in full : z > y})] = before.grid[y]
            /\ \A y \in 1..Cardinality(full) : RowIsEmpty(gridBoard, y)
\* two full rows that are not adjacent, a partly filled row between them
C6_Witness ==
    /\ gridLast.op = "clearFilledRows"
    /\ gridLast.result >= 2
    /\ \E y \in 2..(totalHeight(gridBoard) - 1) :
           /\ RowIsFull(gridLast.board, y - 1)
           /\ ~RowIsFull(gridLast.board, y) /\ ~RowIsEmpty(gridLast.board, y)
           /\ RowIsFull(gridLast.board, y + 1)

\* the offsets tryRotation tries for the rotation recorded in gridLast, and whether
\* the board accepts the piece in the target state at the i-th of them
TrialTarget == getTargetRotation(gridLast.piece.rotation, gridLast.direction)
TrialOffsets ==
    (IF gridLast.piece.type = "I" THEN I_WALL_KICKS ELSE JLSTZ_WALL_KICKS)
        [transitionKey(gridLast.piece.rotation, TrialTarget)]
TrialPiece(i) ==
    [gridLast.piece EXCEPT !.rotation = TrialTarget,
                           !.position = [x |-> @.x + TrialOffsets[i + 1].x,
                                         y |-> @.y + TrialOffsets[i + 1].y]]
TrialAccepted(i) == canPlaceTetromino(gridLast.board, TrialPiece(i))

\* C7: a rotation all 5 trials of which canPlaceTetromino rejects reports failure
\* with kickIndex -1, and a failed rotation or a failed move leaves the position
\* and the rotation state of the piece, and the board, as they were.
C7_FailureIsNoOp ==
    /\ (gridLast.op = "tryRotation" /\ gridLast.piece.type # "O"
        /\ \A i \in 0..4 : ~TrialAccepted(i))
           => gridLast.result.success = FALSE /\ gridLast.result.kickIndex = -1
    /\ (gridLast.op = "tryRotation" /\ ~gridLast.result.success)
           => gridPiece = gridLast.piece /\ gridBoard = gridLast.board
    /\ (gridLast.op = "tryMove" /\ ~gridLast.result)
           => gridPiece = gridLast.piece /\ gridBoard = gridLast.board
\* a piece that is in a valid position and cannot rotate
C7_Witness ==
    /\ gridLast.op = "tryRotation"
    /\ canPlaceTetromino(gridLast.board, gridLast.piece)
    /\ ~gridLast.result.success
    /\ gridLast.result.kickIndex = -1

\* what a successful rotation of a piece other than O commits and reports, but
\* for the offset reported
RotationCommitted ==
    /\ gridLast.result.kickIndex \in 0..4
    /\ TrialAccepted(gridLast.result.kickIndex)
    /\ \A j \in 0..4 : j < gridLast.result.kickIndex => ~TrialAccepted(j)
    /\ gridPiece = TrialPiece(gridLast.result.kickIndex)
    /\ gridPiece.rotation = IF gridLast.direction = "clockwise"
                            THEN (gridLast.piece.rotation + 1) % 4
                            ELSE (gridLast.piece.rotation + 3) % 4
    /\ TrialAccepted(0) =>
           gridLast.result.kickIndex = 0 /\ gridPiece.position = gridLast.piece.position
SuccessfulRotation ==
    gridLast.op = "tryRotation" /\ gridLast.piece.type # "O" /\ gridLast.result.success

\* C8 as stated: a successful rotation of a piece other than O commits the target
\* rotation state and the offset of the first trial accepted, in the order 0..4,
\* and reports the index of that trial and the offset of the table at that index.
C8_ReportsOffsetOfEveryTrial ==
    SuccessfulRotation =>
        /\ RotationCommitted
        /\ gridLast.result.kickOffset = << TrialOffsets[gridLast.result.kickIndex + 1] >>
\* C8: a successful rotation of a piece other than O commits the target rotation
\* state and the offset of the first trial accepted, in the order 0..4, and
\* reports the index of that trial; the offset it reports is the offset of the
\* table for the trials 1..4 and null for trial 0.
C8_RotationCommits ==
    SuccessfulRotation =>
        /\ RotationCommitted
        /\ gridLast.result.kickOffset =
               IF gridLast.result.kickIndex = 0 THEN << >>
               ELSE << TrialOffsets[gridLast.result.kickIndex + 1] >>
\* a rotation that only the last trial resolves
C8_Witness ==
    /\ SuccessfulRotation
    /\ gridLast.result.kickIndex = 4
    /\ canPlaceTetromino(gridLast.board, gridLast.piece)

\* whether the cell at (x, y) of a board is outside the grid or occupied
OutsideGrid(b, x, y) == x < 0 \/ x >= b.config.width \/ y < 0 \/ y >= totalHeight(b)
OutsideOrOccupied(b, x, y) == OutsideGrid(b, x, y) \/ b.grid[y + 1][x + 1].filled
\* the four diagonal neighbours of the pivot; the leading ones lie on the side the
\* T points to: up in state 0, right in 1, down in 2, left in 3
Diagonals == {[x |-> dx, y |-> dy] : dx \in {-1, 1}, dy \in {-1, 1}}
Nose(rotation) ==
    << [x |-> 0, y |-> -1], [x |-> 1, y |-> 0], [x |-> 0, y |-> 1], [x |-> -1, y |-> 0] >>[rotation + 1]
Leading(rotation) ==
    {d \in Diagonals : d.x * Nose(rotation).x + d.y * Nose(rotation).y = 1}
FilledAmong(b, t, corners) ==
    {d \in corners :
        OutsideOrOccupied(b, t.position.x + 1 + d.x, t.position.y + 1 + d.y)}

\* C9: detectTSpin returns none when the piece is not a T, when wasRotation is
\* false, or when fewer than 3 of the 4 corners around the pivot are filled;
\* otherwise full exactly when both leading corners are filled and kickIndex is
\* below 4, and mini in every other case.
C9_Tier ==
    gridLast.op = "detectTSpin" =>
        LET t       == gridLast.piece
            filled  == FilledAmong(gridLast.board, t, Diagonals)
            leading == FilledAmong(gridLast.board, t, Leading(t.rotation))
        IN  /\ gridLast.result.type =
                   IF t.type # "T" \/ ~gridLast.wasRotation \/ Cardinality(filled) < 3
                   THEN "none"
                   ELSE IF Cardinality(leading) = 2 /\ gridLast.kickIndex < 4
                        THEN "full" ELSE "mini"
            /\ gridBoard = gridLast.board /\ gridPiece = gridLast.piece
\* both leading corners filled, and the last trial of the rotation makes it mini
C9_Witness ==
    /\ gridLast.op = "detectTSpin"
    /\ gridLast.piece.type = "T"
    /\ canPlaceTetromino(gridLast.board, gridLast.piece)
    /\ gridLast.kickIndex = 4
    /\ gridLast.result.type = "mini"
    /\ Cardinality(FilledAmong(gridLast.board, gridLast.piece,
                               Leading(gridLast.piece.rotation))) = 2

\* C10 as stated: a corner counts as filled whenever it is past the left wall,
\* past the right wall, below the floor, or in the hidden rows above the visible
\* area or beyond them, whether or not a cell there is occupied.
C10_HiddenRowsCountAsFilled ==
    (gridLast.op = "isCornerFilled"
     /\ \/ gridLast.x < 0
        \/ gridLast.x >= gridLast.board.config.width
        \/ gridLast.y >= totalHeight(gridLast.board)
        \/ gridLast.y < gridLast.board.config.bufferHeight)
        => gridLast.result = TRUE
\* C10: a corner counts as filled whenever it is outside the grid, past the left
\* wall, past the right wall, below the floor or above row 0, whether or not a
\* cell is occupied; a corner inside the grid, the hidden rows included, counts
\* as filled exactly when its cell is occupied.
C10_CornerFilled ==
    gridLast.op = "isCornerFilled" =>
        /\ OutsideGrid(gridLast.board, gridLast.x, gridLast.y) => gridLast.result = TRUE
        /\ ~OutsideGrid(gridLast.board, gridLast.x, gridLast.y) =>
               gridLast.result = gridLast.board.grid[gridLast.y + 1][gridLast.x + 1].filled
\* a corner in a hidden row whose cell is empty, found not filled
C10_Witness ==
    /\ gridLast.op = "isCornerFilled"
    /\ gridLast.y >= 0 /\ gridLast.y < gridLast.board.config.bufferHeight
    /\ gridLast.x >= 0 /\ gridLast.x < gridLast.board.config.width
    /\ gridLast.result = FALSE

(***************************************************************************)
(* SpecTwin: two GameManagers, each starting a game of its own, are given  *)
(* the same updates with the same deltaTime and the same inputs in the     *)
(* same order.  What Math.random yields is each one's own.                 *)
(***************************************************************************)
DeltaTimes == {250, 500}
RepeatLists == {<< >>} \cup {<< action >> : action \in REPEATABLE_ACTIONS}

InitTwin ==
    /\ \E envA \in Environments : sessA = startGame(<< >>, envA)
    /\ \E envB \in Environments : sessB = startGame(<< >>, envB)
    /\ twinSteps = 0
    /\ IdleSeq
    /\ IdleGrid
    /\ IdlePlay
    /\ IdleScore
    /\ IdleRecord
    /\ IdlePlayback
    /\ IdleFrame

TwinUpdate ==
    /\ twinSteps < MaxTwinSteps
    /\ \E deltaTime \in DeltaTimes, repeats \in RepeatLists :
           /\ \E run \in RunsFor(sessA.playState.randomizer) :
                  sessA' = update(sessA, deltaTime, repeats, run)
           /\ \E run \in RunsFor(sessB.playState.randomizer) :
                  sessB' = update(sessB, deltaTime, repeats, run)
    /\ twinSteps' = twinSteps + 1
    /\ UNCHANGED << seqVars, gridVars, playVars, scoreVars,
                    recordVars, playbackVars, frame >>

TwinInput ==
    /\ twinSteps < MaxTwinSteps
    /\ \E action \in InputActions :
           /\ \E run \in RunsFor(sessA.playState.randomizer) :
                  sessA' = handleInput(sessA, action, run)
           /\ \E run \in RunsFor(sessB.playState.randomizer) :
                  sessB' = handleInput(sessB, action, run)
    /\ twinSteps' = twinSteps + 1
    /\ UNCHANGED << seqVars, gridVars, playVars, scoreVars,
                    recordVars, playbackVars, frame >>

NextTwin == TwinUpdate \/ TwinInput

SpecTwin == InitTwin /\ [][NextTwin]_vars

\* C1: two GameManagers whose Randomizers expose the same seed, given the same
\* inputs in the same order and the same updates with the same deltaTime, hold
\* the same score, level, lines, combo and back-to-back flag and the same grid
\* after every step.
C1_SameSeedSameGame ==
    getSeed(sessA.playState.randomizer) = getSeed(sessB.playState.randomizer) =>
        /\ stats(sessA.playState.scoreManager) = stats(sessB.playState.scoreManager)
        /\ sessA.playState.board.grid = sessB.playState.board.grid

(***************************************************************************)
(* SpecPlay: one GameManager in the middle of a game, given updates and    *)
(* inputs.  The game is taken up with a stack on the board and a piece in  *)
(* play: a pocket under an overhang at the right wall that a T enters by   *)
(* the last wall kick, a stack that reaches the buffer rows, and a well.   *)
(***************************************************************************)
\* a Board of the game's configuration; row y is filled in the columns stack[y]
StackBoard(stack) ==
    [config |-> BOARD_CONFIG,
     grid   |-> [row \in 1..(BOARD_CONFIG.height + BOARD_CONFIG.bufferHeight) |->
                    [col \in 1..BOARD_CONFIG.width |->
                        IF row - 1 \in DOMAIN stack /\ col - 1 \in stack[row - 1]
                        THEN [filled |-> TRUE, color |-> TETROMINO_COLORS["L"]]
                        ELSE EmptyCell]]]

PocketBoard ==
    StackBoard(19 :> {8, 9} @@ 20 :> 0..4 @@ 21 :> 0..5 @@ 22 :> 0..7 @@ 23 :> 1..8)
TripleBoard ==
    StackBoard(19 :> {9} @@ 20 :> 0..4 @@ 21 :> 0..8 @@ 22 :> 0..7 @@ 23 :> 0..8)
TowerBoard == StackBoard([y \in 5..23 |-> 0..8])
WellBoard == StackBoard(22 :> ((0..9) \ {4, 5}) @@ 23 :> ((0..9) \ {4, 5}))

PlayStarts ==
    {[board |-> PocketBoard, piece |-> PieceAt("T", 2, 7, 19)],
     [board |-> TripleBoard, piece |-> PieceAt("T", 0, 7, 19)],
     [board |-> TowerBoard,  piece |-> Tetromino("T", << >>)],
     [board |-> WellBoard,   piece |-> Tetromino("O", << >>)]}

\* the ScoreManager of a new game, and one that has cleared 4, 4 and 2 lines
\* with a lock that cleared nothing before and after the 2
PlayScores ==
    {ScoreManager(1),
     processLineClear(
         processLineClear(
             processLineClear(
                 processLineClear(
                     processLineClear(ScoreManager(1),
                         [linesCleared |-> 4, tspinType |-> "none"]).scoreManager,
                     [linesCleared |-> 4, tspinType |-> "none"]).scoreManager,
                 [linesCleared |-> 0, tspinType |-> "none"]).scoreManager,
             [linesCleared |-> 2, tspinType |-> "none"]).scoreManager,
         [linesCleared |-> 0, tspinType |-> "none"]).scoreManager}

\* the scores of the stored high scores, best first: none, or a full list
PlayHighScores == {<< >>, [i \in 1..MAX_HIGH_SCORES |-> 1100 - 100 * i]}

PlayEnvironments == {env \in Environments : env.seed = 42}

\* the GameManager some time into a game: no transition, the stack on the
\* board, the piece in play, one piece drawn from the bags
MidGame(start, env, scoreManager, highScores) ==
    [startGame(highScores, env) EXCEPT
        !.transition = [active |-> FALSE, type |-> "fade-in", elapsed |-> TRANSITION_DURATION],
        !.playState.board = start.board,
        !.playState.currentTetromino = << start.piece >>,
        !.playState.randomizer = next(@, NoRun).rng,
        !.playState.scoreManager = scoreManager]

\* the hold queue some time into a game: a piece held for the piece in play,
\* or held for an earlier one
PlayHolds ==
    {[heldPiece |-> << "I" >>, holdUsed |-> TRUE],
     [heldPiece |-> << "I" >>, holdUsed |-> FALSE]}

InitPlay ==
    /\ \/ \E start \in PlayStarts, env \in PlayEnvironments, scoreManager \in PlayScores,
             highScores \in PlayHighScores :
              play = MidGame(start, env, scoreManager, highScores)
       \/ \E start \in PlayStarts, env \in PlayEnvironments, hold \in PlayHolds :
              play = [MidGame(start, env, ScoreManager(1), << >>) EXCEPT
                         !.playState.hold = hold]
    /\ playLast = NoOperation
    /\ playSteps = 0
    /\ IdleSeq
    /\ IdleGrid
    /\ IdleTwin
    /\ IdleScore
    /\ IdleRecord
    /\ IdlePlayback
    /\ IdleFrame

PlayUpdate ==
    /\ playSteps < MaxPlaySteps
    /\ \E deltaTime \in DeltaTimes, repeats \in RepeatLists,
          run \in RunsFor(play.playState.randomizer) :
           /\ play' = update(play, deltaTime, repeats, run)
           /\ playLast' = [op |-> "update", before |-> play, deltaTime |-> deltaTime,
                           repeats |-> repeats, action |-> "", run |-> run]
    /\ playSteps' = playSteps + 1
    /\ UNCHANGED << seqVars, gridVars, twinVars, scoreVars,
                    recordVars, playbackVars, frame >>

PlayInput ==
    /\ playSteps < MaxPlaySteps
    /\ \E action \in InputActions, run \in RunsFor(play.playState.randomizer) :
           /\ play' = handleInput(play, action, run)
           /\ playLast' = [op |-> "input", before |-> play, deltaTime |-> 0,
                           repeats |-> << >>, action |-> action, run |-> run]
    /\ playSteps' = playSteps + 1
    /\ UNCHANGED << seqVars, gridVars, twinVars, scoreVars,
                    recordVars, playbackVars, frame >>

NextPlay == PlayUpdate \/ PlayInput

SpecPlay == InitPlay /\ [][NextPlay]_vars

\* the play state as the lock sequence finds it, when the last step locked a
\* piece (a hard drop, or an update in which the lock delay ran out); << >>
\* when it locked none
LockEntry ==
    IF playLast.op = "new" THEN << >>
    ELSE IF playLast.op = "input"
    THEN LET before == playLast.before
         IN  IF /\ playLast.action = "hardDrop"
                /\ ~before.transition.active
                /\ before.state = "playing"
                /\ before.playState.currentTetromino # << >>
             THEN << [before.playState EXCEPT
                        !.currentTetromino =
                            << setPosition(@[1], getTetrominoDropPosition(
                                   before.playState.board, @[1])) >>,
                        !.lastActionWasRotation = FALSE] >>
             ELSE << >>
    ELSE LET given == TriggerRepeats(updateTransition(playLast.before, playLast.deltaTime),
                                     playLast.repeats, 1)
         IN  IF /\ given.state = "playing"
                /\ given.playState.currentTetromino # << >>
                /\ checkGrounded(given)
                /\ given.playState.lockTimer - playLast.deltaTime <= 0
             THEN << [given.playState EXCEPT !.isGrounded = TRUE,
                                             !.lockTimer = @ - playLast.deltaTime] >>
             ELSE << >>

\* the tier the detector gives the piece of a play state on a grid
TierOn(ps, board) ==
    detectTSpin(ps.currentTetromino[1], board, ps.lastActionWasRotation, ps.lastKickIndex).type
\* the grid with the piece of a play state locked, and the rows then cleared
LockedGrid(ps) == lockTetromino(ps.board, ps.currentTetromino[1]).board
ClearedBy(ps) == clearFilledRows(LockedGrid(ps))
Ended == {"gameover", "name-input"}

\* C11: every lock detects the bonus tier on the grid as it is before the
\* piece is written, then locks the piece, then clears the full rows, then has
\* the ScoreManager process the lines cleared with that tier, then tests the
\* grid for overflow; the next piece is drawn and spawned only when the test is
\* false, and otherwise the game ends with the piece and the bags as they were.
C11_LockSequence ==
    LockEntry # << >> =>
        LET pre     == LockEntry[1]
            cleared == ClearedBy(pre)
            scored  == processLineClear(pre.scoreManager,
                           [linesCleared |-> cleared.count,
                            tspinType    |-> TierOn(pre, pre.board)]).scoreManager
            drawn   == next(pre.randomizer, playLast.run)
        IN  /\ play.playState.board = cleared.board
            /\ play.playState.scoreManager = scored
            /\ IF isOverflowing(cleared.board)
               THEN /\ play.state \in Ended
                    /\ play.playState.randomizer = pre.randomizer
                    /\ play.playState.currentTetromino = pre.currentTetromino
               ELSE /\ play.state = "playing"
                    /\ play.playState.randomizer = drawn.rng
                    /\ play.playState.currentTetromino = << Tetromino(drawn.piece, << >>) >>

\* a lock whose tier on the grid before the lock is not the tier on the grid
\* after the rows were cleared, followed by a spawn
C11_Witness ==
    /\ LockEntry # << >>
    /\ TierOn(LockEntry[1], LockEntry[1].board) = "mini"
    /\ TierOn(LockEntry[1], ClearedBy(LockEntry[1]).board) = "none"
    /\ ClearedBy(LockEntry[1]).count = 3
    /\ play.state = "playing"
    /\ play.playState.currentTetromino # LockEntry[1].currentTetromino

KickedIntoPocket(ps) ==
    /\ ps.currentTetromino # << >>
    /\ ps.currentTetromino[1].type = "T"
    /\ ps.lastActionWasRotation
    /\ ps.lastKickIndex = TSPIN_MINI_KICK_INDEX
    /\ ps.scoreManager.combo = -1
    /\ ~ps.scoreManager.backToBack
PocketLock(rested) ==
    /\ CountFilled(rested.board, getTCenter(rested.currentTetromino[1]),
                   T_CORNERS[rested.currentTetromino[1].rotation + 1].front
                   \o T_CORNERS[rested.currentTetromino[1].rotation + 1].back) >= 3
    /\ ClearedBy(rested).count = 1
HardDropFromPocket ==
    /\ playLast.op = "input"
    /\ playLast.action = "hardDrop"
    /\ LockEntry # << >>
    /\ KickedIntoPocket(playLast.before.playState)
    /\ PocketLock(LockEntry[1])
DelayLockInPocket ==
    /\ playLast.op = "update"
    /\ LockEntry # << >>
    /\ KickedIntoPocket(LockEntry[1])
    /\ PocketLock(LockEntry[1])
Awarded == play.playState.scoreManager.score - playLast.before.playState.scoreManager.score

\* C13 as stated: the hard drop after the rotation by trial 4 into the pocket
\* is scored as a mini T-spin single: 200 x level, combo 0.
C13_HardDropScoresMini ==
    HardDropFromPocket =>
        /\ Awarded = 200 * playLast.before.playState.scoreManager.level
        /\ stats(play.playState.scoreManager).combo = 0

\* C13: the hard drop clears the rotation flag before it locks, so the lock is
\* of tier none with 1 line: 100 x level, combo 0, back-to-back inactive.
\* When the piece locks in the pocket by the lock delay instead, the tier is
\* mini with 1 line: 200 x level, combo 0, back-to-back active.
C13_PocketLock ==
    /\ HardDropFromPocket =>
           /\ TierOn(LockEntry[1], LockEntry[1].board) = "none"
           /\ Awarded = 100 * playLast.before.playState.scoreManager.level
           /\ stats(play.playState.scoreManager).combo = 0
           /\ ~play.playState.scoreManager.backToBack
           /\ play.playState.scoreManager.lines =
                  playLast.before.playState.scoreManager.lines + 1
    /\ DelayLockInPocket =>
           /\ TierOn(LockEntry[1], LockEntry[1].board) = "mini"
           /\ Awarded = 200 * playLast.before.playState.scoreManager.level
           /\ stats(play.playState.scoreManager).combo = 0
           /\ play.playState.scoreManager.backToBack
           /\ play.playState.scoreManager.lines =
                  playLast.before.playState.scoreManager.lines + 1

C13_Witness ==
    /\ HardDropFromPocket
    /\ playLast.before.playState.scoreManager.level = 2
    /\ LockEntry[1].currentTetromino[1].position.x = 8

\* the same pocket, the piece locked by the lock delay
C13_DelayWitness == DelayLockInPocket

(***************************************************************************)
(* SpecScore: one ScoreManager, constructed with a start level, and the    *)
(* operations of its interface applied to it in any order.                 *)
(***************************************************************************)
StartLevels == {0, 1, 3}
LineClearResults == [linesCleared : 0..4, tspinType : {"none", "mini", "full"}]
DropCells == {2}
NoResult == [linesCleared |-> 0, tspinType |-> "none"]

InitScore ==
    /\ \E startLevel \in StartLevels :
           /\ scoreMgr = ScoreManager(startLevel)
           /\ scoreStart = startLevel
    /\ scoreLast = NoOperation
    /\ scoreOps = 0
    /\ IdleSeq
    /\ IdleGrid
    /\ IdleTwin
    /\ IdlePlay
    /\ IdleRecord
    /\ IdlePlayback
    /\ IdleFrame

ProcessLineClear ==
    /\ scoreOps < MaxScoreOps
    /\ \E result \in LineClearResults :
           \E done \in {processLineClear(scoreMgr, result)} :
               /\ scoreMgr' = done.scoreManager
               /\ scoreLast' = [op |-> "processLineClear", before |-> scoreMgr,
                                result |-> result, points |-> done.points]
    /\ scoreOps' = scoreOps + 1
    /\ UNCHANGED << scoreStart, seqVars, gridVars, twinVars, playVars,
                    recordVars, playbackVars, frame >>

ResetCombo ==
    /\ scoreOps < MaxScoreOps
    /\ scoreMgr' = resetCombo(scoreMgr)
    /\ scoreLast' = [op |-> "resetCombo", before |-> scoreMgr, result |-> NoResult, points |-> 0]
    /\ scoreOps' = scoreOps + 1
    /\ UNCHANGED << scoreStart, seqVars, gridVars, twinVars, playVars,
                    recordVars, playbackVars, frame >>

AddSoftDropBonus ==
    /\ scoreOps < MaxScoreOps
    /\ \E cells \in DropCells : scoreMgr' = addSoftDropBonus(scoreMgr, cells)
    /\ scoreLast' = [op |-> "addSoftDropBonus", before |-> scoreMgr, result |-> NoResult,
                     points |-> 0]
    /\ scoreOps' = scoreOps + 1
    /\ UNCHANGED << scoreStart, seqVars, gridVars, twinVars, playVars,
                    recordVars, playbackVars, frame >>

AddHardDropBonus ==
    /\ scoreOps < MaxScoreOps
    /\ \E cells \in DropCells : scoreMgr' = addHardDropBonus(scoreMgr, cells)
    /\ scoreLast' = [op |-> "addHardDropBonus", before |-> scoreMgr, result |-> NoResult,
                     points |-> 0]
    /\ scoreOps' = scoreOps + 1
    /\ UNCHANGED << scoreStart, seqVars, gridVars, twinVars, playVars,
                    recordVars, playbackVars, frame >>

ResetScoreManager ==
    /\ scoreOps < MaxScoreOps
    /\ \E startLevel \in StartLevels :
           /\ scoreMgr' = resetScoreManager(scoreMgr, startLevel)
           /\ scoreStart' = startLevel
    /\ scoreLast' = [op |-> "reset", before |-> scoreMgr, result |-> NoResult, points |-> 0]
    /\ scoreOps' = scoreOps + 1
    /\ UNCHANGED << seqVars, gridVars, twinVars, playVars,
                    recordVars, playbackVars, frame >>

NextScore ==
    \/ ProcessLineClear
    \/ ResetCombo
    \/ AddSoftDropBonus
    \/ AddHardDropBonus
    \/ ResetScoreManager

SpecScore == InitScore /\ [][NextScore]_vars

\* the last operation was a processLineClear; what it was given and what the
\* ScoreManager was before
Processed == scoreLast.op = "processLineClear"
LinesGiven == scoreLast.result.linesCleared
TierGiven == scoreLast.result.tspinType
Before == scoreLast.before

\* the base values by lines cleared and bonus tier
StatedBase ==
    << 1, "none" >> :> 100 @@ << 2, "none" >> :> 300 @@ << 3, "none" >> :> 500 @@
    << 4, "none" >> :> 800 @@
    << 0, "mini" >> :> 100 @@ << 0, "full" >> :> 400 @@
    << 1, "mini" >> :> 200 @@ << 2, "mini" >> :> 400 @@
    << 1, "full" >> :> 800 @@ << 2, "full" >> :> 1200 @@ << 3, "full" >> :> 1600
Stated == << LinesGiven, TierGiven >> \in DOMAIN StatedBase
BaseGiven == StatedBase[<< LinesGiven, TierGiven >>]
\* 4 lines, or a bonus tier with at least 1 line
StatedDifficult == LinesGiven = 4 \/ (TierGiven # "none" /\ LinesGiven >= 1)
\* 50 x the new combo count x the level before the clear
StatedComboBonus == IF LinesGiven >= 1 THEN 50 * (Before.combo + 1) * Before.level ELSE 0

\* C14: with back-to-back inactive and the combo at -1, processLineClear
\* returns, and adds to the score, base x level, the base being 100/300/500/800
\* for 1/2/3/4 lines without a tier, 100 (mini) or 400 (full) for a tier with 0
\* lines, 200/400 for mini with 1/2 lines, 800/1200/1600 for full with 1/2/3.
C14_BaseTimesLevel ==
    (Processed /\ Stated /\ ~Before.backToBack /\ Before.combo = -1) =>
        /\ scoreLast.points = BaseGiven * Before.level
        /\ scoreMgr.score = Before.score + scoreLast.points

C14_Witness ==
    /\ Processed
    /\ ~Before.backToBack
    /\ Before.combo = -1
    /\ Before.level = 3
    /\ TierGiven = "mini"
    /\ LinesGiven = 2
    /\ scoreLast.points = 1200

\* C15: when back-to-back is active and the action is difficult the base is
\* multiplied by 1.5 and floored before the level multiplies it; otherwise the
\* base is taken as it is.  The points are that times the level, plus the
\* combo bonus.
C15_BackToBackMultiplier ==
    (Processed /\ Stated) =>
        scoreLast.points =
            (IF Before.backToBack /\ StatedDifficult THEN (BaseGiven * 3) \div 2 ELSE BaseGiven)
            * Before.level + StatedComboBonus

\* the second of two consecutive 4-line clears
C15_Witness ==
    /\ Processed
    /\ LinesGiven = 4
    /\ TierGiven = "none"
    /\ Before.backToBack
    /\ Before.combo = 0
    /\ Before.lines = 4
    /\ scoreLast.points = 1200 * Before.level + 50 * Before.level

\* C16: a clear of 4 lines, and a clear with tier mini or full of at least 1
\* line, leaves back-to-back active and is multiplied by 1.5 when back-to-back
\* was active; every other clear of at least 1 line leaves it inactive.
C16_DifficultClears ==
    (Processed /\ LinesGiven >= 1) =>
        /\ scoreMgr.backToBack = StatedDifficult
        /\ (Stated /\ StatedDifficult /\ Before.backToBack) =>
               scoreLast.points = ((BaseGiven * 3) \div 2) * Before.level + StatedComboBonus

\* C17: a result of 0 lines with tier mini or full leaves back-to-back, the
\* combo, the lines and the level as they were; the score grows by the points.
C17_BonusWithoutLines ==
    (Processed /\ LinesGiven = 0 /\ TierGiven # "none") =>
        /\ scoreMgr.backToBack = Before.backToBack
        /\ scoreMgr.combo = Before.combo
        /\ scoreMgr.lines = Before.lines
        /\ scoreMgr.level = Before.level
        /\ scoreMgr.score = Before.score + scoreLast.points
        /\ scoreLast.points = BaseGiven * Before.level

C17_Witness ==
    /\ Processed
    /\ LinesGiven = 0
    /\ TierGiven = "full"
    /\ Before.backToBack
    /\ Before.combo = 1
    /\ scoreMgr.combo = 1

\* C18: a result of 0 lines with tier none sets the combo to -1, returns 0
\* points and leaves the score, the level, the lines and back-to-back as they
\* were.
C18_NoClearResetsCombo ==
    (Processed /\ LinesGiven = 0 /\ TierGiven = "none") =>
        /\ scoreMgr.combo = -1
        /\ scoreLast.points = 0
        /\ scoreMgr.score = Before.score
        /\ scoreMgr.level = Before.level
        /\ scoreMgr.lines = Before.lines
        /\ scoreMgr.backToBack = Before.backToBack

C18_Witness ==
    /\ Processed
    /\ LinesGiven = 0
    /\ TierGiven = "none"
    /\ Before.combo = 1
    /\ Before.backToBack
    /\ Before.score > 0

\* C19: a clear of at least 1 line raises the combo by exactly 1, and the
\* points hold 50 x the new combo x the level as it was before this clear
\* raised it.
C19_ComboBonus ==
    (Processed /\ LinesGiven >= 1) =>
        /\ scoreMgr.combo = Before.combo + 1
        /\ stats(scoreMgr).combo = scoreMgr.combo
        /\ (Stated /\ ~StatedDifficult) =>
               scoreLast.points - BaseGiven * Before.level
                   = 50 * scoreMgr.combo * Before.level
        /\ (Stated /\ StatedDifficult /\ ~Before.backToBack) =>
               scoreLast.points - BaseGiven * Before.level
                   = 50 * scoreMgr.combo * Before.level

\* the third clear of a row, which raises the level
C19_Witness ==
    /\ Processed
    /\ LinesGiven = 3
    /\ TierGiven = "none"
    /\ scoreMgr.combo = 2
    /\ Before.level = 1
    /\ scoreMgr.level = 2
    /\ scoreLast.points = 500 + 100

\* C20 as stated: after every processLineClear the level is
\* floor(lines / 10) + 1, and no operation lowers the level.
C20_LevelIsLinesOverTen ==
    /\ Processed => scoreMgr.level = (scoreMgr.lines \div 10) + 1
    /\ scoreLast.op # "new" => scoreMgr.level >= Before.level

\* C20: after every processLineClear the level is the greater of the level
\* before and floor(lines / 10) + 1; a ScoreManager constructed or reset with a
\* start level of at most 1 has level floor(lines / 10) + 1 throughout.  No
\* operation but reset lowers the level, and reset sets it to the start level
\* (at least 1).
C20_LevelFollowsLines ==
    /\ Processed => scoreMgr.level = Max(Before.level, (scoreMgr.lines \div 10) + 1)
    /\ scoreStart <= 1 => scoreMgr.level = (scoreMgr.lines \div 10) + 1
    /\ (scoreLast.op \notin {"new", "reset"}) => scoreMgr.level >= Before.level
    /\ scoreLast.op = "reset" =>
           /\ scoreMgr.level = Max(1, scoreStart)
           /\ scoreMgr.lines = 0

\* a ScoreManager started at level 3 that has cleared 10 lines
C20_Witness ==
    /\ Processed
    /\ scoreStart = 3
    /\ Before.lines < 10
    /\ scoreMgr.lines >= 10
    /\ scoreMgr.level = 3

\* a ScoreManager started at level 1 whose level rises at the 10th line
C20_RiseWitness ==
    /\ Processed
    /\ scoreStart = 1
    /\ Before.lines = 8
    /\ Before.level = 1
    /\ scoreMgr.lines = 10
    /\ scoreMgr.level = 2

(***************************************************************************)
(* The drop bonuses, in play and at the ScoreManager.                      *)
(***************************************************************************)
\* the last step was an input taken by a game in play with a piece
InputInPlay ==
    /\ playLast.op = "input"
    /\ ~playLast.before.transition.active
    /\ playLast.before.state = "playing"
    /\ playLast.before.playState.currentTetromino # << >>
\* a soft drop that took the piece one cell down
SoftDropDescended ==
    /\ InputInPlay
    /\ playLast.action = "softDrop"
    /\ tryMove(playLast.before, 0, 1).ok
\* the cells the hard drop took the piece down, and the points of its lock
HardDropCells ==
    LockEntry[1].currentTetromino[1].position.y
        - playLast.before.playState.currentTetromino[1].position.y
HardDropLockPoints ==
    processLineClear(LockEntry[1].scoreManager,
        [linesCleared |-> ClearedBy(LockEntry[1]).count,
         tspinType    |-> TierOn(LockEntry[1], LockEntry[1].board)]).points

\* C21: a soft drop that takes the piece one cell down adds 1 to the score and
\* leaves level, lines, combo and back-to-back as they were; a hard drop adds
\* 2 for each cell the piece descends, besides the points of the lock.
C21_DropAddsPerCell ==
    /\ SoftDropDescended =>
           /\ Awarded = SOFT_DROP_BONUS
           /\ play.playState.scoreManager =
                  [playLast.before.playState.scoreManager EXCEPT !.score = @ + SOFT_DROP_BONUS]
    /\ (InputInPlay /\ playLast.action = "hardDrop") =>
           Awarded = HardDropLockPoints + HARD_DROP_BONUS * HardDropCells

\* the ScoreManager's own operations: addSoftDropBonus(cells) adds cells x 1
\* and addHardDropBonus(cells) cells x 2 to the score and change nothing else
C21_BonusOperations ==
    /\ scoreLast.op = "addSoftDropBonus" =>
           \E cells \in DropCells :
               scoreMgr = [scoreLast.before EXCEPT !.score = @ + cells]
    /\ scoreLast.op = "addHardDropBonus" =>
           \E cells \in DropCells :
               scoreMgr = [scoreLast.before EXCEPT !.score = @ + 2 * cells]

(***************************************************************************)
(* The hold queue.                                                         *)
(***************************************************************************)
HoldGiven == InputInPlay /\ playLast.action = "hold"
HoldBefore == playLast.before.playState.hold
\* a hold that takes effect: the hold was not used for the piece in play
HoldTaken == HoldGiven /\ ~HoldBefore.holdUsed

\* C22: a hold given when the hold was used for the piece in play changes
\* nothing; every hold given to a piece in play leaves the hold used, also the
\* one that drew its piece from the bags; and a used hold becomes available
\* only by the spawn that follows a lock.
C22_HoldOncePerSpawn ==
    /\ (HoldGiven /\ HoldBefore.holdUsed) => play = playLast.before
    /\ HoldGiven => play.playState.hold.holdUsed
    /\ (/\ playLast.op # "new"
        /\ playLast.before.playState.hold.holdUsed
        /\ ~play.playState.hold.holdUsed) =>
           /\ LockEntry # << >>
           /\ play.state = "playing"
           /\ play.playState.randomizer = next(LockEntry[1].randomizer, playLast.run).rng

\* a second hold, given after a hold that stored the piece in an empty queue
\* and drew the next piece from the bags
C22_Witness ==
    /\ HoldGiven
    /\ HoldBefore.holdUsed
    /\ HoldBefore.heldPiece \in {<< "T" >>, << "O" >>}
    /\ play.playState.currentTetromino[1].type # HoldBefore.heldPiece[1]

\* a hold that takes effect after the lock of the piece the hold was used for
C22_AgainWitness ==
    /\ HoldTaken
    /\ HoldBefore.heldPiece = << "I" >>
    /\ playLast.before.playState.board # Board(BOARD_CONFIG)
    /\ playLast.before.playState.board \notin {start.board : start \in PlayStarts}

\* C23: a hold that takes effect stores the type of the piece in play; with
\* nothing held the new piece is the next draw from the bags, otherwise it is
\* the type that was held and the bags are as they were; the new piece is at
\* the spawn position in rotation 0, the lock timer, drop timer, grounded and
\* rotation flags and kick index are reset, and the board and the ScoreManager
\* are unchanged.
C23_HoldSwaps ==
    HoldTaken =>
        LET before == playLast.before.playState
            after  == play.playState
            drawn  == next(before.randomizer, playLast.run)
        IN  /\ after.hold.heldPiece = << before.currentTetromino[1].type >>
            /\ IF before.hold.heldPiece = << >>
               THEN /\ after.currentTetromino[1].type = drawn.piece
                    /\ after.randomizer = drawn.rng
               ELSE /\ after.currentTetromino[1].type = before.hold.heldPiece[1]
                    /\ after.randomizer = before.randomizer
            /\ after.currentTetromino[1].position = [x |-> 3, y |-> 0]
            /\ after.currentTetromino[1].rotation = 0
            /\ after.lockTimer = LOCK_DELAY
            /\ after.dropTimer = 0
            /\ ~after.lastActionWasRotation
            /\ ~after.isGrounded
            /\ after.lastKickIndex = 0
            /\ after.board = before.board
            /\ after.scoreManager = before.scoreManager
            /\ play.state = "playing"

\* a swap with the held piece, given to a grounded piece that the last action
\* rotated and whose timers had run
C23_Witness ==
    /\ HoldTaken
    /\ HoldBefore.heldPiece = << "I" >>
    /\ play.playState.currentTetromino[1].type = "I"
    /\ playLast.before.playState.lockTimer < LOCK_DELAY
    /\ playLast.before.playState.dropTimer > 0
    /\ playLast.before.playState.isGrounded

\* a first hold, which draws from the bags
C23_DrawWitness ==
    /\ HoldTaken
    /\ HoldBefore.heldPiece = << >>
    /\ play.playState.randomizer # playLast.before.playState.randomizer

(***************************************************************************)
(* SpecRecord: one ReplaySystem, and startRecording, recordAction and      *)
(* stopRecording called on it in any order, the clock standing still or    *)
(* advancing between two calls.                                            *)
(***************************************************************************)
RecordSeeds == {42, 123}
RecordActions == {"moveLeft", "hardDrop"}
\* what performance.now() advances by between two calls
ClockWaits == {0, 1}
\* the final score, level and lines handed to stopRecording
FinalStats == [score |-> 1000, level |-> 5, lines |-> 20]

InitRecord ==
    /\ IdleRecord
    /\ IdleSeq
    /\ IdleGrid
    /\ IdleTwin
    /\ IdlePlay
    /\ IdleScore
    /\ IdlePlayback
    /\ IdleFrame

\* the ids generated so far: one by each stopRecording
IdsGenerated == Cardinality({i \in DOMAIN recCalls : recCalls[i].op = "stopRecording"})

StartRecording ==
    /\ Len(recCalls) < MaxRecordCalls
    /\ \E seed \in RecordSeeds, wait \in ClockWaits :
           /\ recClock' = recClock + wait
           /\ recorder' = startRecording(recorder, seed, recClock + wait)
           /\ recCalls' = Append(recCalls, [op |-> "startRecording", seed |-> seed,
                                            action |-> "", now |-> recClock + wait])
    /\ UNCHANGED << recorded, seqVars, gridVars, twinVars, playVars, scoreVars,
                    playbackVars, frame >>

RecordAction ==
    /\ Len(recCalls) < MaxRecordCalls
    /\ \E action \in RecordActions, wait \in ClockWaits :
           /\ recClock' = recClock + wait
           /\ recorder' = recordAction(recorder, action, recClock + wait)
           /\ recCalls' = Append(recCalls, [op |-> "recordAction", seed |-> 0,
                                            action |-> action, now |-> recClock + wait])
    /\ UNCHANGED << recorded, seqVars, gridVars, twinVars, playVars, scoreVars,
                    playbackVars, frame >>

StopRecording ==
    /\ Len(recCalls) < MaxRecordCalls
    /\ \E wait \in ClockWaits :
           \E stopped \in {stopRecording(recorder, FinalStats.score, FinalStats.level,
                                         FinalStats.lines, recClock + wait,
                                         IdsGenerated + 1)} :
               /\ recClock' = recClock + wait
               /\ recorder' = stopped.replaySystem
               /\ recorded' = << stopped.replayData >>
               /\ recCalls' = Append(recCalls, [op |-> "stopRecording", seed |-> 0,
                                                action |-> "", now |-> recClock + wait])
    /\ UNCHANGED << seqVars, gridVars, twinVars, playVars, scoreVars, playbackVars, frame >>

NextRecord ==
    \/ StartRecording
    \/ RecordAction
    \/ StopRecording

SpecRecord == InitRecord /\ [][NextRecord]_vars

\* the last call was a stopRecording
Stopped == recCalls # << >> /\ recCalls[Len(recCalls)].op = "stopRecording"
\* the position of the most recent startRecording among the calls, 0 if none
LastStart ==
    IF \E i \in DOMAIN recCalls : recCalls[i].op = "startRecording"
    THEN CHOOSE i \in DOMAIN recCalls :
             /\ recCalls[i].op = "startRecording"
             /\ \A j \in DOMAIN recCalls : recCalls[j].op = "startRecording" => j <= i
    ELSE 0
\* the recordAction calls made since that start with no stopRecording between
\* the start and them
WhileRecording(i) ==
    /\ LastStart > 0
    /\ i > LastStart
    /\ recCalls[i].op = "recordAction"
    /\ \A j \in (LastStart + 1)..(i - 1) : recCalls[j].op # "stopRecording"
CallsRecorded == SelectSeq([i \in DOMAIN recCalls |-> i], WhileRecording)

\* C24: the ReplayData stopRecording returns holds one event for each
\* recordAction called since the most recent startRecording while recording,
\* with the actions of those calls in the order of the calls, and the seed of
\* that startRecording (0 if there was none); a recordAction called before any
\* startRecording or after a stopRecording adds no event.
C24_RecordHoldsCalls ==
    Stopped =>
        /\ Len(recorded[1].events) = Len(CallsRecorded)
        /\ \A i \in DOMAIN CallsRecorded :
               /\ recorded[1].events[i].action = recCalls[CallsRecorded[i]].action
               /\ recorded[1].events[i].timestamp =
                      recCalls[CallsRecorded[i]].now - recCalls[LastStart].now
        /\ recorded[1].seed = IF LastStart = 0 THEN 0 ELSE recCalls[LastStart].seed
        /\ ~recorder.recording

\* a record of one action, returned after a recordAction that came when the
\* recording had been stopped and a second stopRecording
C24_Witness ==
    /\ Stopped
    /\ Len(CallsRecorded) = 1
    /\ \E i \in DOMAIN recCalls :
           /\ i > CallsRecorded[1]
           /\ recCalls[i].op = "recordAction"
           /\ ~WhileRecording(i)

\* a recordAction before any startRecording, and a record of the later ones
C24_EarlyWitness ==
    /\ Stopped
    /\ recCalls[1].op = "recordAction"
    /\ Len(CallsRecorded) = 2
    /\ recorded[1].events[1].action # recorded[1].events[2].action

(***************************************************************************)
(* SpecPlayback: a playback state created for a ReplayData that            *)
(* stopRecording returned, and updatePlayback, setSpeed, pause, resume and *)
(* togglePause applied to it in any order.                                 *)
(***************************************************************************)
\* the ReplaySystems that up to n calls lead to, each with the clock and the
\* number of ids generated
RECURSIVE RecordersAfter(_)
RecordersAfter(n) ==
    IF n = 0 THEN {[replaySystem |-> ReplaySystem, now |-> 0, ids |-> 0]}
    ELSE UNION
        {earlier
         \cup {[r EXCEPT !.replaySystem = startRecording(@, seed, r.now + wait),
                         !.now = @ + wait] :
               r \in earlier, seed \in RecordSeeds, wait \in ClockWaits}
         \cup {[r EXCEPT !.replaySystem = recordAction(@, action, r.now + wait),
                         !.now = @ + wait] :
               r \in earlier, action \in RecordActions, wait \in ClockWaits}
         \cup {[r EXCEPT !.replaySystem = [@ EXCEPT !.recording = FALSE],
                         !.now = @ + wait,
                         !.ids = @ + 1] :
               r \in earlier, wait \in ClockWaits} :
         earlier \in {RecordersAfter(n - 1)}}

\* the ReplayData that stopRecording returns as one of up to MaxRecordCalls calls
StoppedRecords ==
    {stopRecording(r.replaySystem, FinalStats.score, FinalStats.level, FinalStats.lines,
                   r.now + wait, r.ids + 1).replayData :
     r \in RecordersAfter(MaxRecordCalls - 1), wait \in ClockWaits}

\* the deltaTime handed to updatePlayback
PlaybackDeltas == {-1, 0, 1, 3}

\* those of them played back: the ones a first stopRecording returned, for a
\* recording started with the seed 42 or never started
PlayedRecords == {replay \in StoppedRecords : replay.id = 1 /\ replay.seed \in {0, 42}}

InitPlayback ==
    /\ \E replay \in PlayedRecords : playback = createPlaybackState(replay)
    /\ played = << >>
    /\ playbackLast = NoOperation
    /\ IdleSeq
    /\ IdleGrid
    /\ IdleTwin
    /\ IdlePlay
    /\ IdleScore
    /\ IdleRecord
    /\ IdleFrame

UpdatePlaybackBy(deltas) ==
    /\ \E deltaTime \in deltas :
           \E updated \in {updatePlayback(playback, deltaTime)} :
               /\ playback' = updated.state
               /\ played' = played \o updated.actions
               /\ playbackLast' = [op |-> "updatePlayback", before |-> playback,
                                   deltaTime |-> deltaTime, actions |-> updated.actions]
    /\ UNCHANGED << seqVars, gridVars, twinVars, playVars, scoreVars, recordVars, frame >>

UpdatePlayback == UpdatePlaybackBy(PlaybackDeltas)

SetSpeed ==
    /\ \E speed \in ReplaySpeeds : playback' = setSpeed(playback, speed)
    /\ playbackLast' = [op |-> "setSpeed", before |-> playback, deltaTime |-> 0,
                        actions |-> << >>]
    /\ UNCHANGED << played, seqVars, gridVars, twinVars, playVars, scoreVars, recordVars,
                    frame >>

Pause ==
    /\ playback' = pause(playback)
    /\ playbackLast' = [op |-> "pause", before |-> playback, deltaTime |-> 0,
                        actions |-> << >>]
    /\ UNCHANGED << played, seqVars, gridVars, twinVars, playVars, scoreVars, recordVars,
                    frame >>

Resume ==
    /\ playback' = resume(playback)
    /\ playbackLast' = [op |-> "resume", before |-> playback, deltaTime |-> 0,
                        actions |-> << >>]
    /\ UNCHANGED << played, seqVars, gridVars, twinVars, playVars, scoreVars, recordVars,
                    frame >>

TogglePause ==
    /\ playback' = togglePause(playback)
    /\ playbackLast' = [op |-> "togglePause", before |-> playback, deltaTime |-> 0,
                        actions |-> << >>]
    /\ UNCHANGED << played, seqVars, gridVars, twinVars, playVars, scoreVars, recordVars,
                    frame >>

NextPlayback ==
    \/ UpdatePlayback
    \/ SetSpeed
    \/ Pause
    \/ Resume
    \/ TogglePause

SpecPlayback == InitPlayback /\ [][NextPlayback]_vars

\* the last operation was an updatePlayback; the state it was given
Updated == playbackLast.op = "updatePlayback"
Given == playbackLast.before
\* the cases in which updatePlayback is to do nothing
NoOpCase == Given.paused \/ Given.finished \/ playbackLast.deltaTime < 0
\* the events of the record played back; event i is due at a currentTime (in
\* half milliseconds) when its timestamp is at most that time
Events == playback.replay.events
Due(i, currentTime) == 2 * Events[i].timestamp <= currentTime
ActionsOf(from, to) == [i \in 1..(to - from + 1) |-> Events[from + i - 1].action]

\* C25: when the state is not paused and not finished and deltaTime >= 0,
\* updatePlayback adds deltaTime x speed to currentTime and returns, in the
\* order of the log, the actions of all events not returned before whose
\* timestamp is at most the new currentTime; afterwards no event that is left
\* has a timestamp at most currentTime.
C25_DrainsDueEvents ==
    (Updated /\ ~NoOpCase) =>
        /\ playback.currentTime =
               Given.currentTime + playbackLast.deltaTime * Given.speed
        /\ playback.nextEventIndex >= Given.nextEventIndex
        /\ playbackLast.actions =
               ActionsOf(Given.nextEventIndex + 1, playback.nextEventIndex)
        /\ \A i \in DOMAIN Events :
               (i > Given.nextEventIndex /\ Due(i, playback.currentTime))
                   <=> i \in (Given.nextEventIndex + 1)..playback.nextEventIndex
        /\ \A i \in DOMAIN Events :
               i > playback.nextEventIndex => ~Due(i, playback.currentTime)
        /\ playback.speed = Given.speed
        /\ playback.paused = Given.paused
        /\ playback.replay = Given.replay

\* an update at half speed that returns two different actions and leaves an
\* event for later
C25_Witness ==
    /\ Updated
    /\ ~NoOpCase
    /\ Given.speed = 1
    /\ Len(playbackLast.actions) = 2
    /\ playbackLast.actions[1] # playbackLast.actions[2]
    /\ playback.nextEventIndex < Len(Events)

\* C26: when the state is paused or finished, or deltaTime is negative,
\* updatePlayback returns no action and leaves the state (currentTime,
\* nextEventIndex, paused, speed, finished) as it was.
C26_NoOpCases ==
    (Updated /\ NoOpCase) =>
        /\ playbackLast.actions = << >>
        /\ playback = Given

\* a paused state with an event due within the deltaTime given
C26_Witness ==
    /\ Updated
    /\ Given.paused
    /\ ~Given.finished
    /\ playbackLast.deltaTime > 0
    /\ Given.nextEventIndex < Len(Events)
    /\ Due(Given.nextEventIndex + 1,
           Given.currentTime + playbackLast.deltaTime * Given.speed)

\* a negative deltaTime given to a state that is neither paused nor finished
C26_NegativeWitness ==
    /\ Updated
    /\ ~Given.paused
    /\ ~Given.finished
    /\ playbackLast.deltaTime < 0
    /\ Given.currentTime > 0

\* a finished state given a positive deltaTime
C26_FinishedWitness ==
    /\ Updated
    /\ ~Given.paused
    /\ Given.finished
    /\ playbackLast.deltaTime > 0

\* every event has been returned and currentTime has reached the duration
LogPlayedOut ==
    /\ playback.nextEventIndex >= Len(Events)
    /\ playback.currentTime >= 2 * playback.replay.duration

\* C27: after an updatePlayback that is not one of the no-op cases, finished
\* is true exactly when every event has been returned and currentTime is at
\* least the duration; finished is never true while an event is left or
\* currentTime is below the duration; and no operation makes it false again.
C27_FinishedWhenPlayedOut ==
    /\ (Updated /\ ~NoOpCase) => (playback.finished <=> LogPlayedOut)
    /\ playback.finished => LogPlayedOut
    /\ (playbackLast.op # "new" /\ Given.finished) => playback.finished

\* an update that brings currentTime exactly to the duration, after the last
\* event had been returned by an earlier update
C27_Witness ==
    /\ Updated
    /\ ~NoOpCase
    /\ playback.finished
    /\ playback.currentTime = 2 * playback.replay.duration
    /\ Len(Events) > 0
    /\ Given.nextEventIndex = Len(Events)

\* an update that returns the last event and is short of the duration
C27_UnfinishedWitness ==
    /\ Updated
    /\ ~NoOpCase
    /\ ~playback.finished
    /\ playback.nextEventIndex = Len(Events)
    /\ playbackLast.actions # << >>

(***************************************************************************)
(* SpecPlaybackLive: a playback that is never paused, driven by the game   *)
(* loop: updatePlayback is called with a positive deltaTime again and      *)
(* again, and the speed is set at any time.                                *)
(***************************************************************************)
AdvancePlayback == UpdatePlaybackBy({deltaTime \in PlaybackDeltas : deltaTime > 0})

NextPlaybackLive ==
    \/ AdvancePlayback
    \/ SetSpeed

SpecPlaybackLive ==
    InitPlayback /\ [][NextPlaybackLive]_vars /\ WF_vars(AdvancePlayback)

\* the actions of the record played back, in the order recorded
RecordedActions == ActionsOf(1, Len(Events))

\* C28: for a record that stopRecording returned, positive deltaTimes and any
\* of the speeds, the actions the successive updatePlayback calls return are,
\* put together, at every moment the first actions of the recording in their
\* order, they are the whole recording once the playback is finished, and the
\* playback does become finished.
C28_PlaybackReproduces ==
    /\ [](/\ Len(played) <= Len(RecordedActions)
          /\ played = SubSeq(RecordedActions, 1, Len(played))
          /\ playback.finished => played = RecordedActions)
    /\ <>(playback.finished)

\* a finished playback of three actions, not all the same, at half speed,
\* that took more than one update to return them
C28_Witness ==
    /\ playback.finished
    /\ Len(played) = 3
    /\ played[1] # played[3]
    /\ playback.speed = 1
    /\ Updated
    /\ Given.nextEventIndex > 0

(***************************************************************************)
(* peek and the draws that follow it (SpecSeq).                            *)
(***************************************************************************)
\* the pieces the next n calls of next() return; run is what Math.random
\* yields when one of them refills the preview bag
RECURSIVE Upcoming(_, _, _)
Upcoming(rng, n, run) ==
    IF n <= 0 THEN << >>
    ELSE CHOOSE u \in {<< d.piece >> \o Upcoming(d.rng, n - 1, run) :
                       d \in {next(rng, run)}} : TRUE

PeekCounts == (-1)..MaxPeek
\* what Math.random can yield in the calls of next() that follow a state
UpcomingRuns(rng) == IF rng.random.seeded THEN {NoRun} ELSE MathRandomRuns

\* C30: in every state of a Randomizer and for every count, peek(count)
\* returns at most 14 types and no more than count, and they are, in order,
\* the types the following calls of next() return, whatever Math.random
\* yields when the preview bag is refilled on the way; peek reads the bags
\* and writes nothing, so the draws after any number of peeks are those draws.
C30_PeekShowsUpcoming ==
    \A rng \in {rngA, rngB} : \A run \in UpcomingRuns(rng) :
        \E upcoming \in {Upcoming(rng, Len(rng.bag) + Len(rng.previewBag), run)} :
            \A count \in PeekCounts :
                \E shown \in {peek(rng, count)} :
                    /\ Len(shown) <= 14
                    /\ Len(shown) <= Max(count, 0)
                    /\ Len(shown) = Min(Min(Max(count, 0), 14), Len(upcoming))
                    /\ shown = SubSeq(upcoming, 1, Len(shown))

\* an unseeded Randomizer with 2 types left in its bag after 12 draws: the
\* preview of 9 types runs into the next bag
C30_Witness ==
    /\ ~rngA.random.seeded
    /\ Len(drawnA) = 12
    /\ Len(rngA.bag) = 2
    /\ Len(peek(rngA, MaxPeek)) = 9

(***************************************************************************)
(* SpecTick: a GameManager in mid-game, its update followed statement by   *)
(* statement. A key press is handled between two ticks, as the browser     *)
(* runs an event handler only when no other script is running; the         *)
(* repeats of held keys are triggered by inputHandler.update() within      *)
(* update.                                                                 *)
(***************************************************************************)
stepOrderInputLast(pc) ==
    CASE pc = "transition" -> "play"
      [] pc = "play"       -> "grounded"
      [] pc = "grounded"   -> "lock"
      [] pc = "lock"       -> "gravity"
      [] pc = "gravity"    -> "input"
      [] pc = "input"      -> "done"

\* the order of the statements of update: updateTransition,
\* inputHandler.update, the tests of the game state and of the piece, the
\* grounded check, the lock delay, the drop timer
stepOrder(pc) ==
    CASE pc = "transition" -> "input"
      [] pc = "input"      -> "play"
      [] pc = "play"       -> "grounded"
      [] pc = "grounded"   -> "lock"
      [] pc = "lock"       -> "gravity"
      [] pc = "gravity"    -> "done"

InitTick ==
    /\ \E start \in PlayStarts :
           frame = Frame(MidGame(start, NoEnvironment, ScoreManager(1), << >>))
    /\ IdleSeq
    /\ IdleGrid
    /\ IdleTwin
    /\ IdlePlay
    /\ IdleScore
    /\ IdleRecord
    /\ IdlePlayback

TickFrame == UNCHANGED << seqVars, gridVars, twinVars, playVars, scoreVars, recordVars,
                          playbackVars >>

\* handleKeyDown: the action of the key is triggered at once
KeyDown ==
    /\ frame.pc = "idle"
    /\ frame.count < MaxFrameSteps
    /\ \E action \in InputActions, run \in RunsFor(frame.gm.playState.randomizer) :
           frame' = [frame EXCEPT !.gm = handleInput(@, action, run),
                                  !.steps = Append(@, "input"),
                                  !.count = @ + 1]
    /\ TickFrame

\* the game loop calls update(deltaTime)
BeginTick ==
    /\ frame.pc = "idle"
    /\ frame.count < MaxFrameSteps
    /\ \E deltaTime \in DeltaTimes, repeats \in RepeatLists,
          run \in RunsFor(frame.gm.playState.randomizer) :
           frame' = [frame EXCEPT !.pc = "transition", !.entry = frame.gm,
                                  !.deltaTime = deltaTime, !.repeats = repeats,
                                  !.pending = repeats, !.run = run, !.count = @ + 1]
    /\ TickFrame

TransitionStep ==
    /\ frame.pc = "transition"
    /\ frame' = [frame EXCEPT !.gm = updateTransition(@, frame.deltaTime),
                              !.pc = stepOrder("transition")]
    /\ TickFrame

\* inputHandler.update(): the next repeat that is due, or on when none is left
InputStep ==
    /\ frame.pc = "input"
    /\ frame' = IF frame.pending = << >>
                THEN [frame EXCEPT !.pc = stepOrder("input")]
                ELSE [frame EXCEPT !.gm = handleInput(@, Head(frame.pending), NoRun),
                                   !.pending = Tail(@),
                                   !.steps = Append(@, "input")]
    /\ TickFrame

\* the cursor blink, the return when not playing, the spawn of a first piece
PlayStep ==
    /\ frame.pc = "play"
    /\ frame' =
           IF frame.gm.state = "name-input"
           THEN [frame EXCEPT !.gm = updatePlay(@, frame.deltaTime, frame.run),
                              !.pc = "done"]
           ELSE IF frame.gm.state # "playing" THEN [frame EXCEPT !.pc = "done"]
           ELSE IF frame.gm.playState.currentTetromino = << >>
           THEN [frame EXCEPT !.gm = spawnTetromino(@, frame.run),
                              !.steps = Append(@, "spawn"),
                              !.pc = "done"]
           ELSE [frame EXCEPT !.pc = stepOrder("play")]
    /\ TickFrame

GroundedStep ==
    /\ frame.pc = "grounded"
    /\ frame' = [frame EXCEPT !.gm.playState.isGrounded = checkGrounded(frame.gm),
                              !.steps = Append(@, "grounded"),
                              !.pc = stepOrder("grounded")]
    /\ TickFrame

LockStep ==
    /\ frame.pc = "lock"
    /\ frame' =
           IF frame.gm.playState.isGrounded
           THEN IF frame.gm.playState.lockTimer - frame.deltaTime <= 0
                THEN [frame EXCEPT
                         !.gm = lockPiece([@ EXCEPT !.playState.lockTimer =
                                                        @ - frame.deltaTime], frame.run),
                         !.steps = Append(@, "lock"),
                         !.pc = "done"]
                ELSE [frame EXCEPT !.gm.playState.lockTimer = @ - frame.deltaTime,
                                   !.steps = Append(@, "lock"),
                                   !.pc = stepOrder("lock")]
           ELSE [frame EXCEPT !.gm.playState.lockTimer = LOCK_DELAY,
                              !.steps = Append(@, "lock"),
                              !.pc = stepOrder("lock")]
    /\ TickFrame

GravityStep ==
    /\ frame.pc = "gravity"
    /\ \E timed \in {[frame.gm EXCEPT !.playState.dropTimer = @ + frame.deltaTime]} :
           frame' = [frame EXCEPT
                        !.gm = IF timed.playState.dropTimer
                                      >= fallSpeed(timed.playState.scoreManager)
                               THEN tryMove([timed EXCEPT !.playState.dropTimer = 0],
                                            0, 1).gm
                               ELSE timed,
                        !.steps = Append(@, "gravity"),
                        !.pc = stepOrder("gravity")]
    /\ TickFrame

\* update returns
EndTick ==
    /\ frame.pc = "done"
    /\ frame' = [frame EXCEPT !.pc = "idle", !.steps = << >>, !.pending = << >>]
    /\ TickFrame

NextTick ==
    \/ KeyDown
    \/ BeginTick
    \/ TransitionStep
    \/ InputStep
    \/ PlayStep
    \/ GroundedStep
    \/ LockStep
    \/ GravityStep
    \/ EndTick

SpecTick == InitTick /\ [][NextTick]_vars

TimedSteps == {"grounded", "lock", "gravity"}

\* C29: every action of a tick, the key presses handled since the last tick
\* and the repeats triggered within update, is applied before the grounded
\* check, the lock delay and the drop timer of that tick run: no action is
\* applied after one of them, none is pending when they run, and the
\* GameManager update leaves is the one that results from the transition, the
\* repeats and then the timed statements.
C29_InputsBeforeTimedSteps ==
    /\ \A i, j \in DOMAIN frame.steps :
           (i < j /\ frame.steps[i] \in TimedSteps) => frame.steps[j] # "input"
    /\ frame.pc \in TimedSteps => frame.pending = << >>
    /\ frame.pc = "done" =>
           frame.gm = update(frame.entry, frame.deltaTime, frame.repeats, frame.run)

\* a tick with a key press before it and a repeat within it, both of which
\* moved the piece, that ran the grounded check, the lock delay and the drop
\* timer
C29_Witness ==
    /\ frame.pc = "done"
    /\ frame.steps = << "input", "input", "grounded", "lock", "gravity" >>
    /\ frame.repeats # << >>
    /\ frame.entry.playState.currentTetromino # frame.gm.playState.currentTetromino
    /\ frame.entry.playState.currentTetromino[1].position.x
           # frame.gm.playState.currentTetromino[1].position.x

(***************************************************************************)
(* SpecWindow: one Randomizer drawn from for nearly three bags, so that    *)
(* windows of consecutive draws start at every offset within a bag.        *)
(***************************************************************************)
MaxWindowDraws == 20

InitWindow ==
    /\ \E seed \in SeedArgs : \E env \in EnvironmentsFor(seed) :
           rngA = Constructed[seed][env]
    /\ rngB = Constructed[<< 42 >>][NoEnvironment]
    /\ drawnA = << >>
    /\ drawnB = << >>
    /\ IdleGrid
    /\ IdleTwin
    /\ IdlePlay
    /\ IdleScore
    /\ IdleRecord
    /\ IdlePlayback
    /\ IdleFrame

DrawInWindow ==
    /\ Len(drawnA) < MaxWindowDraws
    /\ \E run \in RunsFor(rngA) :
           \E n \in {next(rngA, run)} :
               /\ rngA' = n.rng
               /\ drawnA' = Append(drawnA, n.piece)
    /\ UNCHANGED << rngB, drawnB, gridVars, twinVars, playVars, scoreVars,
                    recordVars, playbackVars, frame >>

ResetInWindow ==
    /\ Len(drawnA) > 0
    /\ \E seed \in SeedArgs : \E env \in EnvironmentsFor(seed) :
           rngA' = reset(rngA, seed, env)
    /\ drawnA' = << >>
    /\ UNCHANGED << rngB, drawnB, gridVars, twinVars, playVars, scoreVars,
                    recordVars, playbackVars, frame >>

NextWindow == DrawInWindow \/ ResetInWindow

SpecWindow == InitWindow /\ [][NextWindow]_vars

\* the draws start .. start + length - 1 of a log, and how many of them are type
DrawsFrom(drawn, start, length) == {drawn[start + i] : i \in 0..(length - 1)}
CountFrom(drawn, start, length, type) ==
    Cardinality({i \in 0..(length - 1) : drawn[start + i] = type})

\* C31: every 13 consecutive draws of a Randomizer since its construction or
\* reset, whatever draw they start at, hold each of the 7 tetromino types at
\* least once.
C31_ThirteenHoldAll ==
    \A start \in 1..(Len(drawnA) - 12) :
        DrawsFrom(drawnA, start, 13) = TetrominoTypes
\* an unseeded Randomizer with a window of 13 behind it at each of the 7 offsets
\* within a bag
C31_Witness ==
    /\ ~rngA.random.seeded
    /\ Len(drawnA) >= 19

\* C32: in every 14 consecutive draws of a Randomizer since its construction or
\* reset, whatever draw they start at, no tetromino type occurs more than twice.
C32_FourteenHoldTwo ==
    \A start \in 1..(Len(drawnA) - 13) :
        \A type \in TetrominoTypes : CountFrom(drawnA, start, 14, type) <= 2
\* what holds instead: at most three of a type, and exactly two of each when
\* the 14 draws start at a bag boundary
C32_FourteenHoldThree ==
    \A start \in 1..(Len(drawnA) - 13) :
        \A type \in TetrominoTypes :
            /\ CountFrom(drawnA, start, 14, type) <= 3
            /\ start % 7 = 1 => CountFrom(drawnA, start, 14, type) = 2

(***************************************************************************)
(* getTetrominoDropPosition (SpecGrid).                                    *)
(***************************************************************************)
\* the piece of the last operation at row y of its own column
Lowered(y) == setPosition(gridLast.piece, [x |-> gridLast.piece.position.x, y |-> y])
PlaceableAt(y) == canPlaceTetromino(gridLast.board, Lowered(y))

C33_UnplaceableWitness ==
    /\ gridLast.op = "getTetrominoDropPosition"
    /\ ~PlaceableAt(gridLast.piece.position.y)
    /\ gridLast.result = gridLast.piece.position

(***************************************************************************)
(* getProgress (SpecPlayback).                                             *)
(***************************************************************************)
\* C34: in every state of a playback getProgress returns a value from 0 to 100:
\* 100 times the elapsed time over the duration of the record while the elapsed
\* time is below the duration, exactly 100 from then on, and exactly 100 for a
\* record of duration 0.
C34_ProgressClamped ==
    LET progress == getProgress(playback)
        elapsed  == playback.currentTime
        duration == 2 * playback.replay.duration
    IN  /\ progress.den > 0
        /\ 0 <= progress.num
        /\ progress.num <= 100 * progress.den
        /\ IF duration = 0 \/ elapsed >= duration
           THEN progress.num = 100 * progress.den
           ELSE progress.num * duration = 100 * elapsed * progress.den
\* a playback stopped part of the way through its record, at an odd number of
\* half-milliseconds
C34_Witness ==
    /\ 0 < playback.currentTime
    /\ playback.currentTime < 2 * playback.replay.duration
    /\ playback.currentTime % 2 = 1
    /\ getProgress(playback).num < 100 * getProgress(playback).den
\* a playback past the end of its record
C34_PastEndWitness ==
    /\ playback.replay.duration > 0
    /\ playback.currentTime > 2 * playback.replay.duration
    /\ getProgress(playback) = Percent(100, 1)
\* a playback of a record of duration 0, before and after its first update
C34_EmptyWitness ==
    /\ playback.replay.duration = 0
    /\ playback.currentTime > 0
    /\ getProgress(playback) = Percent(100, 1)

(***************************************************************************)
(* SpecSession: one GameManager in the middle of a game, given updates and *)
(* inputs as in SpecPlay.  The game is taken up with a new ScoreManager,   *)
(* the piece as the last descent left it, some time after that descent,   *)
(* or after a tick that found it blocked and began the lock delay.         *)
(***************************************************************************)
MaxSessionSteps == 3

\* the drop timer some time after the last descent of the piece
PlayDropTimers == {750}

InitSession ==
    /\ \E start \in PlayStarts :
           \E gm \in {MidGame(start, NoEnvironment, ScoreManager(1), << >>)} :
               \/ play = gm
               \/ \E dropTimer \in PlayDropTimers :
                      play = [gm EXCEPT !.playState.dropTimer = dropTimer]
               \/ \E deltaTime \in DeltaTimes :
                      /\ checkGrounded(gm)
                      /\ deltaTime < LOCK_DELAY
                      /\ play = update(gm, deltaTime, << >>, NoRun)
    /\ playLast = NoOperation
    /\ playSteps = 0
    /\ IdleSeq
    /\ IdleGrid
    /\ IdleTwin
    /\ IdleScore
    /\ IdleRecord
    /\ IdlePlayback
    /\ IdleFrame

SessionUpdate ==
    /\ playSteps < MaxSessionSteps
    /\ \E deltaTime \in DeltaTimes, repeats \in RepeatLists,
          run \in RunsFor(play.playState.randomizer) :
           /\ play' = update(play, deltaTime, repeats, run)
           /\ playLast' = [op |-> "update", before |-> play, deltaTime |-> deltaTime,
                           repeats |-> repeats, action |-> "", run |-> run]
    /\ playSteps' = playSteps + 1
    /\ UNCHANGED << seqVars, gridVars, twinVars, scoreVars,
                    recordVars, playbackVars, frame >>

SessionInput ==
    /\ playSteps < MaxSessionSteps
    /\ \E action \in InputActions, run \in RunsFor(play.playState.randomizer) :
           /\ play' = handleInput(play, action, run)
           /\ playLast' = [op |-> "input", before |-> play, deltaTime |-> 0,
                           repeats |-> << >>, action |-> action, run |-> run]
    /\ playSteps' = playSteps + 1
    /\ UNCHANGED << seqVars, gridVars, twinVars, scoreVars,
                    recordVars, playbackVars, frame >>

NextSession == SessionUpdate \/ SessionInput

SpecSession == InitSession /\ [][NextSession]_vars

(***************************************************************************)
(* The rotation flag and the kick index (SpecSession).                     *)
(***************************************************************************)
\* the GameManager an update hands to its timed statements: the transition
\* advanced and the repeats triggered
UpdateEntry == updateTransition(playLast.before, playLast.deltaTime)
UpdateGiven == TriggerRepeats(UpdateEntry, playLast.repeats, 1)

\* a GameManager that takes the actions of a game in play on a piece
TakesActions(gm) ==
    /\ ~gm.transition.active
    /\ gm.state = "playing"
    /\ gm.playState.currentTetromino # << >>

Translations ==
    "moveLeft" :> [dx |-> -1, dy |-> 0] @@ "moveRight" :> [dx |-> 1, dy |-> 0] @@
    "softDrop" :> [dx |-> 0, dy |-> 1]
Rotations ==
    "rotateClockwise" :> "clockwise" @@ "rotateCounterClockwise" :> "counterClockwise"

\* the rotation flag and kick index are those of from
FlagKept(from, to) ==
    /\ to.playState.lastActionWasRotation = from.playState.lastActionWasRotation
    /\ to.playState.lastKickIndex = from.playState.lastKickIndex
\* a piece was spawned: the flag and the kick index are reset
FlagReset(to) ==
    /\ ~to.playState.lastActionWasRotation
    /\ to.playState.lastKickIndex = 0

\* what one action does to the flag, from the GameManager that takes it to the
\* one it leaves
ActionSetsFlag(from, to, action) ==
    IF ~TakesActions(from) THEN FlagKept(from, to)
    ELSE LET ps    == from.playState
             piece == ps.currentTetromino[1]
         IN  CASE action \in DOMAIN Translations ->
                      IF tryMovePiece(ps.board, piece, Translations[action].dx,
                                      Translations[action].dy).ok
                      THEN /\ ~to.playState.lastActionWasRotation
                           /\ to.playState.lastKickIndex = ps.lastKickIndex
                      ELSE FlagKept(from, to)
               [] action \in DOMAIN Rotations ->
                      LET result == tryRotation(piece, ps.board, Rotations[action])
                      IN  IF result.success
                          THEN /\ to.playState.lastActionWasRotation
                               /\ to.playState.lastKickIndex = result.kickIndex
                          ELSE FlagKept(from, to)
               [] action = "hardDrop" ->
                      /\ ~to.playState.lastActionWasRotation
                      /\ to.state = "playing" => FlagReset(to)
               [] action = "hold" ->
                      IF ps.hold.holdUsed THEN FlagKept(from, to) ELSE FlagReset(to)
               [] action = "pause" -> FlagKept(from, to)

\* the piece of a GameManager can descend by gravity within deltaTime
GravityDescends(gm, deltaTime) ==
    /\ gm.playState.dropTimer + deltaTime >= fallSpeed(gm.playState.scoreManager)
    /\ ~checkGrounded(gm)
\* what the timed statements of update do to the flag
TimeSetsFlag(from, to, deltaTime) ==
    IF from.state # "playing" THEN FlagKept(from, to)
    ELSE IF from.playState.currentTetromino = << >> THEN FlagReset(to)
    ELSE IF checkGrounded(from) /\ from.playState.lockTimer - deltaTime <= 0
    THEN IF to.state = "playing" THEN FlagReset(to) ELSE FlagKept(from, to)
    ELSE IF GravityDescends(from, deltaTime)
    THEN /\ ~to.playState.lastActionWasRotation
         /\ to.playState.lastKickIndex = from.playState.lastKickIndex
    ELSE FlagKept(from, to)

\* C35: step by step, the rotation flag is true exactly when the last
\* successful move of the piece since its spawn was a rotation: a successful
\* rotation sets it and stores the index of its kick; a successful move to the
\* side, soft drop, descent by gravity or hard drop clears it; a failed action
\* leaves flag and index as they were; a spawn resets the flag and sets the
\* index to 0.
C35_FlagFollowsLastMove ==
    /\ playLast.op = "input" => ActionSetsFlag(playLast.before, play, playLast.action)
    /\ playLast.op = "update" =>
           /\ playLast.repeats # << >> =>
                  ActionSetsFlag(UpdateEntry, UpdateGiven, playLast.repeats[1])
           /\ TimeSetsFlag(UpdateGiven, play, playLast.deltaTime)
\* a move to the side that succeeds on a piece whose last move was a rotation
\* with a kick
C35_Witness ==
    /\ playLast.op = "input"
    /\ TakesActions(playLast.before)
    /\ playLast.action \in {"moveLeft", "moveRight"}
    /\ playLast.before.playState.lastActionWasRotation
    /\ playLast.before.playState.lastKickIndex > 0
    /\ ~play.playState.lastActionWasRotation
\* a descent by gravity that clears the flag a rotation set
C35_GravityWitness ==
    /\ playLast.op = "update"
    /\ UpdateGiven.playState.lastActionWasRotation
    /\ GravityDescends(UpdateGiven, playLast.deltaTime)
    /\ ~play.playState.lastActionWasRotation
    /\ play.state = "playing"
\* a rotation that fails on a piece whose flag is set
C35_FailedWitness ==
    /\ playLast.op = "input"
    /\ TakesActions(playLast.before)
    /\ playLast.action \in DOMAIN Rotations
    /\ playLast.before.playState.lastActionWasRotation
    /\ ~tryRotation(playLast.before.playState.currentTetromino[1],
                    playLast.before.playState.board, Rotations[playLast.action]).success

(***************************************************************************)
(* The lock delay within a tick (SpecSession).                               *)
(***************************************************************************)
\* the last step was an update that found the game in play with a piece once
\* its repeats were triggered
TickWithPiece ==
    /\ playLast.op = "update"
    /\ UpdateGiven.state = "playing"
    /\ UpdateGiven.playState.currentTetromino # << >>
\* that piece cannot be placed one row lower
PieceBlocked ==
    ~canPlaceTetromino(UpdateGiven.playState.board,
                       move(UpdateGiven.playState.currentTetromino[1], 0, 1))
SpawnPosition == [x |-> 3, y |-> 0]

\* C36: in every tick of a game in play with a piece: when the piece cannot be
\* placed one row lower the lock timer is reduced by deltaTime, and when that
\* makes it 0 or less the piece is locked in this tick and no gravity step
\* follows; when the piece can be placed one row lower the lock timer is
\* LOCK_DELAY, 500 ms, after the tick.
C36_LockDelayInTick ==
    TickWithPiece =>
        IF PieceBlocked
        THEN IF UpdateGiven.playState.lockTimer - playLast.deltaTime <= 0
             THEN /\ LockEntry # << >>
                  /\ LockEntry[1].lockTimer
                         = UpdateGiven.playState.lockTimer - playLast.deltaTime
                  /\ play.playState.board = ClearedBy(LockEntry[1]).board
                  /\ play.state = "playing" =>
                         /\ play.playState.currentTetromino[1].position = SpawnPosition
                         /\ play.playState.dropTimer = 0
                  /\ play.state # "playing" =>
                         /\ play.playState.currentTetromino
                                = UpdateGiven.playState.currentTetromino
                         /\ play.playState.dropTimer = UpdateGiven.playState.dropTimer
             ELSE /\ play.playState.lockTimer
                         = UpdateGiven.playState.lockTimer - playLast.deltaTime
                  /\ play.playState.currentTetromino
                         = UpdateGiven.playState.currentTetromino
                  /\ play.playState.board = UpdateGiven.playState.board
        ELSE /\ play.playState.lockTimer = LOCK_DELAY
             /\ LOCK_DELAY = 500
             /\ play.playState.board = UpdateGiven.playState.board
\* a tick that runs the lock delay of a blocked piece out and locks it
C36_Witness ==
    /\ TickWithPiece
    /\ PieceBlocked
    /\ UpdateGiven.playState.lockTimer - playLast.deltaTime <= 0
    /\ play.state = "playing"
    /\ play.playState.board # UpdateGiven.playState.board
\* a tick that reduces the lock timer of a blocked piece and locks nothing
C36_CountdownWitness ==
    /\ TickWithPiece
    /\ PieceBlocked
    /\ play.playState.lockTimer = LOCK_DELAY - playLast.deltaTime
    /\ play.playState.lockTimer > 0
\* a tick that finds a piece free to descend and takes it one row down
C36_FreeWitness ==
    /\ TickWithPiece
    /\ ~PieceBlocked
    /\ play.playState.lockTimer = LOCK_DELAY
    /\ play.playState.currentTetromino[1].position.y
           = UpdateGiven.playState.currentTetromino[1].position.y + 1

(***************************************************************************)
(* The lock delay and the actions between two ticks (SpecSession).           *)
(***************************************************************************)
\* the piece of a GameManager cannot be placed one row lower
Blocked(gm) ==
    ~canPlaceTetromino(gm.playState.board, move(gm.playState.currentTetromino[1], 0, 1))
\* the action succeeds on the piece of the GameManager that takes it
Succeeds(from, action) ==
    IF action \in DOMAIN Translations
    THEN tryMovePiece(from.playState.board, from.playState.currentTetromino[1],
                      Translations[action].dx, Translations[action].dy).ok
    ELSE IF action \in DOMAIN Rotations
    THEN tryRotation(from.playState.currentTetromino[1], from.playState.board,
                     Rotations[action]).success
    ELSE FALSE
\* what one action does to the lock timer
ActionSetsLockTimer(from, to, action) ==
    TakesActions(from) =>
        /\ (/\ action \in {"moveLeft", "moveRight"} \cup DOMAIN Rotations
            /\ Succeeds(from, action)
            /\ Blocked(from)) => to.playState.lockTimer = LOCK_DELAY
        /\ action = "softDrop" => to.playState.lockTimer = from.playState.lockTimer

\* C37: a move to the side or a rotation that succeeds on a piece that cannot
\* be placed one row lower when the action is applied leaves the lock timer at
\* LOCK_DELAY, also when other actions were applied since the last tick; a
\* soft drop leaves the lock timer as it was.
C37_GroundedActionResetsDelay ==
    /\ playLast.op = "input" => ActionSetsLockTimer(playLast.before, play, playLast.action)
    /\ (playLast.op = "update" /\ playLast.repeats # << >>) =>
           ActionSetsLockTimer(UpdateEntry, UpdateGiven, playLast.repeats[1])
\* a key press that moves or rotates a blocked piece whose lock timer had run
\* down
C37_Witness ==
    /\ playLast.op = "input"
    /\ TakesActions(playLast.before)
    /\ Blocked(playLast.before)
    /\ Succeeds(playLast.before, playLast.action)
    /\ playLast.action # "softDrop"
    /\ playLast.before.playState.lockTimer < LOCK_DELAY
    /\ play.playState.lockTimer = LOCK_DELAY
\* a piece blocked when the action is applied that was free at the last
\* grounded check
C37_StaleWitness ==
    /\ playLast.op = "input"
    /\ TakesActions(playLast.before)
    /\ Blocked(playLast.before)
    /\ ~playLast.before.playState.isGrounded
    /\ Succeeds(playLast.before, playLast.action)
    /\ playLast.action # "softDrop"
\* a soft drop given to a blocked piece whose lock timer had run down
C37_SoftDropWitness ==
    /\ playLast.op = "input"
    /\ TakesActions(playLast.before)
    /\ playLast.action = "softDrop"
    /\ Blocked(playLast.before)
    /\ play.playState.lockTimer < LOCK_DELAY

(***************************************************************************)
(* SpecPiece: the life of one piece.  A GameManager in the middle of a     *)
(* game is given ticks and key presses in any order, without bound, until  *)
(* the piece in play is locked or held or the game is no longer in play;   *)
(* ticks keep arriving.  playLast.before is the GameManager the piece is   *)
(* taken up with, and playLast.reset tells whether the last step was a     *)
(* move to the side or a rotation that succeeded on a blocked piece.       *)
(***************************************************************************)
InitPiece ==
    /\ \E start \in PlayStarts :
           /\ play = MidGame(start, NoEnvironment, ScoreManager(1), << >>)
           /\ playLast = [op |-> "piece", before |-> play, reset |-> FALSE]
    /\ playSteps = 0
    /\ IdleSeq
    /\ IdleGrid
    /\ IdleTwin
    /\ IdleScore
    /\ IdleRecord
    /\ IdlePlayback
    /\ IdleFrame

\* the piece was locked (the next one drawn, or the game ended) or held
Settled ==
    \/ play.playState.randomizer # playLast.before.playState.randomizer
    \/ play.playState.hold # playLast.before.playState.hold
    \/ play.state \in Ended
LeftPlay == play.state # "playing"

ResetsLockDelay(from, action) ==
    /\ TakesActions(from)
    /\ action \in {"moveLeft", "moveRight"} \cup DOMAIN Rotations
    /\ Succeeds(from, action)
    /\ Blocked(from)

TickPiece ==
    /\ ~Settled
    /\ ~LeftPlay
    /\ \E deltaTime \in DeltaTimes :
           play' = update(play, deltaTime, << >>, NoRun)
    /\ playLast' = [playLast EXCEPT !.reset = FALSE]
    /\ UNCHANGED << playSteps, seqVars, gridVars, twinVars, scoreVars,
                    recordVars, playbackVars, frame >>

InputPiece ==
    /\ ~Settled
    /\ ~LeftPlay
    /\ \E action \in InputActions :
           /\ play' = handleInput(play, action, NoRun)
           /\ playLast' = [playLast EXCEPT !.reset = ResetsLockDelay(play, action)]
    /\ UNCHANGED << playSteps, seqVars, gridVars, twinVars, scoreVars,
                    recordVars, playbackVars, frame >>

NextPiece == TickPiece \/ InputPiece

SpecPiece == InitPiece /\ [][NextPiece]_vars /\ WF_vars(TickPiece)

FourEmptyCells(board, piece) ==
    /\ Cardinality(Occupied(piece)) = 4
    /\ \A p \in Occupied(piece) : p \in Positions(board) /\ ~CellAt(board, p).filled

\* C39: while the game is in play, the piece in play can be placed where it
\* is: its four cells are inside the board and empty, also right after a
\* spawn, a hold, a move, a rotation and a descent by gravity, and the buffer
\* rows, in which pieces spawn, hold no filled cell; so the lockTetromino of
\* every lock succeeds and fills exactly four cells that were empty.
C39_PieceCanBePlaced ==
    /\ (play.state \in {"playing", "paused"} /\ play.playState.currentTetromino # << >>) =>
           /\ canPlaceTetromino(play.playState.board, play.playState.currentTetromino[1])
           /\ FourEmptyCells(play.playState.board, play.playState.currentTetromino[1])
           /\ ~isOverflowing(play.playState.board)
    /\ \A pre \in {LockEntry[i] : i \in DOMAIN LockEntry} :
           \E locked \in {lockTetromino(pre.board, pre.currentTetromino[1])},
              cells \in {Occupied(pre.currentTetromino[1])} :
               /\ FourEmptyCells(pre.board, pre.currentTetromino[1])
               /\ locked.ok
               /\ \A p \in Positions(pre.board) :
                      CellAt(locked.board, p).filled
                          = (CellAt(pre.board, p).filled \/ p \in cells)
               /\ play.playState.board = clearFilledRows(locked.board).board
\* a lock on a stack after which the next piece is spawned where it can be
\* placed
C39_Witness ==
    /\ LockEntry # << >>
    /\ play.state = "playing"
    /\ play.playState.currentTetromino[1].position = SpawnPosition
    /\ ~RowIsEmpty(play.playState.board, BOARD_CONFIG.height + BOARD_CONFIG.bufferHeight)
\* a move to the side that fails against the wall or the stack and leaves the
\* piece where it was
C39_FailedMoveWitness ==
    /\ playLast.op = "input"
    /\ TakesActions(playLast.before)
    /\ playLast.action \in {"moveLeft", "moveRight"}
    /\ ~Succeeds(playLast.before, playLast.action)
    /\ play.playState.currentTetromino = playLast.before.playState.currentTetromino
\* a swap with the held piece
C39_HoldWitness ==
    /\ HoldTaken
    /\ play.playState.currentTetromino[1].position = SpawnPosition

(***************************************************************************)
(* Pause (SpecSession).                                                      *)
(***************************************************************************)
\* the last step was a pause action given to a paused game
PauseWhilePaused ==
    /\ playLast.op = "input"
    /\ playLast.action = "pause"
    /\ ~playLast.before.transition.active
    /\ playLast.before.state = "paused"

\* C40: a pause action given to a paused game returns it to playing, with the
\* board, the piece, the ScoreManager, the hold and the timers as they were
\* when the pause began.
C40_PauseToggles ==
    PauseWhilePaused =>
        /\ play.state = "playing"
        /\ play.playState = playLast.before.playState

\* what holds instead: a paused game stays paused whatever action or update it
\* is given, and its play state stays as it is
C40_PausedStaysPaused ==
    (playLast.op # "new" /\ playLast.before.state = "paused") =>
        /\ play.state = "paused"
        /\ play.playState = playLast.before.playState

====
